---- MODULE Spec2Model ----
(***************************************************************************)
(* Model of the setlist manager in src/App.py: the key-transposition and   *)
(* chord-sheet display pipeline, the footer look-ahead of the preview and  *)
(* the editor operations on the blocks of a setlist.                       *)
(*                                                                         *)
(* A Python str is modelled as a sequence of one-character strings, so     *)
(* "|C" is << "|", "C" >>, and "" is << >>.  A None item is the record     *)
(* NoItem.                                                                 *)
(***************************************************************************)
EXTENDS Integers, Sequences, FiniteSets, TLC

VARIABLES
    blocks,            \* st.session_state.blocks
    screen,            \* st.session_state.screen
    current_item,      \* st.session_state.current_item: None or (b, i)
    selected_idx,      \* st.session_state.selected_block_idx and
                       \* selected_item_idx: both None or (b, i)
    setlist_name,      \* st.session_state.setlist_name
    preview_item,      \* main: the item the preview shows, or None
    old_session,       \* cursor, selection, name and screen when the
                       \* handler that ran last started
    csv_file,          \* storage: the CSV file of the setlist
    df_sel,            \* load_setlist_into_state: the table it read
    chord_store,       \* storage: the text file of every chord path
    chord_cache,       \* st.cache_data of load_chord_from_repo
    chord_path,        \* the path handed to the last chord call
    old_cache,         \* the cache when the last chord call started
    http_ok,           \* whether the last request to storage succeeded
    op,                \* the handler that ran last, with its arguments
    old_blocks,        \* st.session_state.blocks when that handler started
    cur_block_idx,     \* cursor handed to get_footer_context
    cur_item_idx,
    footer_mode,       \* result of get_footer_context
    footer_next_item,
    raw_body,          \* build_sheet_page_html: text read for the item
    tom_original,      \* build_sheet_page_html: origin key
    tom_atual,         \* build_sheet_page_html: target key
    body_transposed,   \* build_sheet_page_html: after transpose_body_text
    body_norm,         \* build_sheet_page_html: after normalize_lyrics_indent
    body_final,        \* build_sheet_page_html: after strip_chord_markers
    diff_steps,        \* transpose_body_text: steps = semitone_diff(..)
    key_root,          \* result of parse_root_from_key
    tr_root,           \* transpose_root: the argument root
    tr_steps,          \* transpose_root: the argument steps
    tr_result,         \* transpose_root(tr_root, tr_steps)
    tr_back,           \* transpose_root(tr_result, -tr_steps)
    pc                 \* position inside the function being followed

vars == << blocks, screen, current_item, selected_idx, setlist_name,
           preview_item, old_session, csv_file, df_sel,
           chord_store, chord_cache, chord_path, old_cache, http_ok,
           op, old_blocks,
           cur_block_idx, cur_item_idx, footer_mode, footer_next_item,
           raw_body, tom_original, tom_atual,
           body_transposed, body_norm, body_final, diff_steps,
           key_root, tr_root, tr_steps, tr_result, tr_back, pc >>

histVars   == << op, old_blocks >>
editorVars == << blocks, screen, op, old_blocks >>
navVars    == << cur_block_idx, cur_item_idx, footer_mode, footer_next_item >>
textVars   == << raw_body, tom_original, tom_atual,
                 body_transposed, body_norm, body_final, diff_steps, pc >>
keyVars    == << key_root, tr_root, tr_steps, tr_result, tr_back >>
sessionVars == << current_item, selected_idx, setlist_name, preview_item,
                  old_session >>
storeVars  == << csv_file, df_sel, chord_store, chord_cache, chord_path,
                 old_cache, http_ok >>

(***************************************************************************)
(* Bounds                                                                  *)
(***************************************************************************)
MaxBlocks == 2      \* blocks of a setlist in the editor
MaxItems == 2       \* items of a setlist in the editor
NavBlocks == 3      \* blocks of a setlist handed to the footer look-ahead
NavItems == 2       \* items of one such block
MaxLen == 4         \* characters of a raw chord sheet
StoredBlocks == 2   \* blocks of a setlist found in storage
MaxSteps == 13      \* largest number of semitones handed to transpose_root

(***************************************************************************)
(* Python string helpers                                                   *)
(***************************************************************************)
\* characters at which str.splitlines() ends a line
LineBreaks == { "\n", "\r", "\f" }

\* characters str.strip() removes
Whitespace == { " ", "\t", "\n", "\r", "\f" }

RECURSIVE SplitFrom(_, _, _, _)
SplitFrom(s, i, cur, acc) ==
    IF i > Len(s)
    THEN IF cur = << >> THEN acc ELSE Append(acc, cur)
    ELSE IF s[i] = "\r" /\ i < Len(s) /\ s[i + 1] = "\n"
         THEN SplitFrom(s, i + 2, << >>, Append(acc, cur))
         ELSE IF s[i] \in LineBreaks
              THEN SplitFrom(s, i + 1, << >>, Append(acc, cur))
              ELSE SplitFrom(s, i + 1, Append(cur, s[i]), acc)

\* str.splitlines(): no empty last line after a final line break
SplitLines(s) == SplitFrom(s, 1, << >>, << >>)

RECURSIVE JoinLines(_)
\* "\n".join(lines)
JoinLines(lines) ==
    IF lines = << >> THEN << >>
    ELSE IF Len(lines) = 1 THEN lines[1]
         ELSE lines[1] \o << "\n" >> \o JoinLines(Tail(lines))

\* line.startswith(c)
StartsWith(line, c) == Len(line) > 0 /\ line[1] = c

RECURSIVE StripLeft(_)
StripLeft(s) ==
    IF s # << >> /\ s[1] \in Whitespace THEN StripLeft(Tail(s)) ELSE s

RECURSIVE StripRight(_)
StripRight(s) ==
    IF s # << >> /\ s[Len(s)] \in Whitespace
    THEN StripRight(SubSeq(s, 1, Len(s) - 1)) ELSE s

\* str.strip()
Strip(s) == StripRight(StripLeft(s))

\* str.upper() on one character
Upper(c) ==
    CASE c = "a" -> "A" [] c = "b" -> "B" [] c = "c" -> "C" [] c = "d" -> "D"
      [] c = "e" -> "E" [] c = "f" -> "F" [] c = "g" -> "G" [] c = "h" -> "H"
      [] OTHER -> c

(***************************************************************************)
(* Transposition constants                                                 *)
(***************************************************************************)
NOTE_SEQ_SHARP ==
    << <<"C">>, <<"C","#">>, <<"D">>, <<"D","#">>, <<"E">>, <<"F">>,
       <<"F","#">>, <<"G">>, <<"G","#">>, <<"A">>, <<"A","#">>, <<"B">> >>

NOTE_SEQ_FLAT ==
    << <<"C">>, <<"D","b">>, <<"D">>, <<"E","b">>, <<"E">>, <<"F">>,
       <<"G","b">>, <<"G">>, <<"A","b">>, <<"A">>, <<"B","b">>, <<"B">> >>

\* the keys of the dict NOTE_TO_INDEX
NoteNames ==
    { NOTE_SEQ_SHARP[k] : k \in 1..12 } \cup { NOTE_SEQ_FLAT[k] : k \in 1..12 }

\* NOTE_TO_INDEX[root], for root in NoteNames
NOTE_TO_INDEX(root) ==
    IF \E k \in 1..12 : NOTE_SEQ_SHARP[k] = root
    THEN (CHOOSE k \in 1..12 : NOTE_SEQ_SHARP[k] = root) - 1
    ELSE (CHOOSE k \in 1..12 : NOTE_SEQ_FLAT[k] = root) - 1

\* parse_root_from_key returns None for the empty root: "root or None"
NoRoot == << >>

\* split_root_and_suffix(symbol)[0]
split_root(symbol) ==
    LET s == Strip(symbol) IN
    IF s = << >> THEN << >>
    ELSE IF Len(s) > 1 /\ s[2] \in { "#", "b" }
         THEN << Upper(s[1]), s[2] >>
         ELSE << Upper(s[1]) >>

\* split_root_and_suffix(symbol)[1]
split_suffix(symbol) ==
    LET s == Strip(symbol) IN
    IF s = << >> THEN << >>
    ELSE IF Len(s) > 1 /\ s[2] \in { "#", "b" }
         THEN SubSeq(s, 3, Len(s))
         ELSE SubSeq(s, 2, Len(s))

\* variant: a root that names no note is turned into None as well
parse_root_from_key_notes_only(key) ==
    LET root == split_root(key) IN IF root \notin NoteNames THEN NoRoot ELSE root

parse_root_from_key(key) ==
    LET root == split_root(key) IN IF root = << >> THEN NoRoot ELSE root

\* variant: the difference runs from the target to the origin
semitone_diff_reversed(orig_key, target_key) ==
    LET r1 == parse_root_from_key(orig_key)
        r2 == parse_root_from_key(target_key)
    IN  IF r1 = NoRoot \/ r2 = NoRoot THEN 0
        ELSE IF r1 \notin NoteNames \/ r2 \notin NoteNames THEN 0
             ELSE (NOTE_TO_INDEX(r1) - NOTE_TO_INDEX(r2)) % 12

\* variant: the difference of the natural notes, accidentals ignored
semitone_diff_naturals(orig_key, target_key) ==
    LET r1 == parse_root_from_key(orig_key)
        r2 == parse_root_from_key(target_key)
    IN  IF r1 = NoRoot \/ r2 = NoRoot THEN 0
        ELSE IF r1 \notin NoteNames \/ r2 \notin NoteNames THEN 0
             ELSE (NOTE_TO_INDEX(<< r2[1] >>) - NOTE_TO_INDEX(<< r1[1] >>)) % 12

\* variant: a root missing from NOTE_TO_INDEX counts as index 0
semitone_diff_missing_as_zero(orig_key, target_key) ==
    LET r1 == parse_root_from_key(orig_key)
        r2 == parse_root_from_key(target_key)
        i1 == IF r1 \in NoteNames THEN NOTE_TO_INDEX(r1) ELSE 0
        i2 == IF r2 \in NoteNames THEN NOTE_TO_INDEX(r2) ELSE 0
    IN  IF r1 = NoRoot \/ r2 = NoRoot THEN 0
        ELSE (i2 - i1) % 12

semitone_diff(orig_key, target_key) ==
    LET r1 == parse_root_from_key(orig_key)
        r2 == parse_root_from_key(target_key)
    IN  IF r1 = NoRoot \/ r2 = NoRoot THEN 0
        ELSE IF r1 \notin NoteNames \/ r2 \notin NoteNames THEN 0
             ELSE (NOTE_TO_INDEX(r2) - NOTE_TO_INDEX(r1)) % 12

HasChar(s, c) == \E k \in 1..Len(s) : s[k] = c

\* variant: the steps are subtracted
transpose_root_down(root, steps) ==
    IF steps = 0 THEN root
    ELSE IF root \notin NoteNames THEN root
         ELSE LET idx == NOTE_TO_INDEX(root)
                  scale == IF HasChar(root, "b") THEN NOTE_SEQ_FLAT
                           ELSE NOTE_SEQ_SHARP
              IN  scale[((idx - steps) % 12) + 1]

\* variant: the steps are added whatever their sign
transpose_root_abs(root, steps) ==
    IF steps = 0 THEN root
    ELSE IF root \notin NoteNames THEN root
         ELSE LET idx == NOTE_TO_INDEX(root)
                  scale == IF HasChar(root, "b") THEN NOTE_SEQ_FLAT
                           ELSE NOTE_SEQ_SHARP
                  up == IF steps < 0 THEN -steps ELSE steps
              IN  scale[((idx + up) % 12) + 1]

\* variant: no modulo, an index outside the scale leaves the root alone
transpose_root_no_wrap(root, steps) ==
    IF steps = 0 THEN root
    ELSE IF root \notin NoteNames THEN root
         ELSE LET idx == NOTE_TO_INDEX(root)
                  scale == IF HasChar(root, "b") THEN NOTE_SEQ_FLAT
                           ELSE NOTE_SEQ_SHARP
              IN  IF idx + steps \in 0..11 THEN scale[idx + steps + 1]
                  ELSE root

\* variant: the sharp scale is used for every root
transpose_root_sharp_only(root, steps) ==
    IF steps = 0 THEN root
    ELSE IF root \notin NoteNames THEN root
         ELSE LET idx == NOTE_TO_INDEX(root)
              IN  NOTE_SEQ_SHARP[((idx + steps) % 12) + 1]

transpose_root(root, steps) ==
    IF steps = 0 THEN root
    ELSE IF root \notin NoteNames THEN root
         ELSE LET idx == NOTE_TO_INDEX(root)
                  scale == IF HasChar(root, "b") THEN NOTE_SEQ_FLAT
                           ELSE NOTE_SEQ_SHARP
              IN  scale[((idx + steps) % 12) + 1]

PitchLetters == { "A", "B", "C", "D", "E", "F", "G" }

RECURSIVE SubRoots_first_only(_, _)
\* variant: re.sub with count=1, only the first match is replaced
SubRoots_first_only(text, steps) ==
    IF text = << >> THEN << >>
    ELSE IF text[1] \in PitchLetters
         THEN IF Len(text) > 1 /\ text[2] \in { "#", "b" }
              THEN transpose_root(<< text[1], text[2] >>, steps)
                       \o SubSeq(text, 3, Len(text))
              ELSE transpose_root(<< text[1] >>, steps) \o Tail(text)
         ELSE << text[1] >> \o SubRoots_first_only(Tail(text), steps)

RECURSIVE SubRoots(_, _)
\* re.sub(r"([A-G](?:#|b)?)", repl, text) with repl = transpose_root(.., steps)
SubRoots(text, steps) ==
    IF text = << >> THEN << >>
    ELSE IF text[1] \in PitchLetters
         THEN IF Len(text) > 1 /\ text[2] \in { "#", "b" }
              THEN transpose_root(<< text[1], text[2] >>, steps)
                       \o SubRoots(SubSeq(text, 3, Len(text)), steps)
              ELSE transpose_root(<< text[1] >>, steps)
                       \o SubRoots(Tail(text), steps)
         ELSE << text[1] >> \o SubRoots(Tail(text), steps)

\* variant: the roots of every line are replaced, marker or not
transpose_line_every_line(line, steps) ==
    IF ~ StartsWith(line, "|") THEN SubRoots(line, steps)
    ELSE << line[1] >> \o SubRoots(Tail(line), steps)

transpose_line(line, steps) ==
    IF ~ StartsWith(line, "|") THEN line
    ELSE << line[1] >> \o SubRoots(Tail(line), steps)

\* variant: no early return when steps is 0
transpose_body_text_no_shortcut(body, tom_orig, tom_destino) ==
    LET steps == semitone_diff(tom_orig, tom_destino)
        lines == SplitLines(body)
    IN  JoinLines([k \in 1..Len(lines) |-> transpose_line(lines[k], steps)])

transpose_body_text(body, tom_orig, tom_destino) ==
    LET steps == semitone_diff(tom_orig, tom_destino)
        lines == SplitLines(body)
    IN  IF steps = 0 THEN body
        ELSE JoinLines([k \in 1..Len(lines) |-> transpose_line(lines[k], steps)])

\* variant: the marker of a chord line is removed as well
normalize_line_all_markers(line) ==
    IF StartsWith(line, "|") \/ StartsWith(line, " ") THEN Tail(line)
    ELSE line

normalize_line(line) ==
    IF StartsWith(line, "|") THEN line
    ELSE IF StartsWith(line, " ") THEN Tail(line) ELSE line

normalize_lyrics_indent(text) ==
    LET lines == SplitLines(text)
    IN  JoinLines([k \in 1..Len(lines) |-> normalize_line(lines[k])])

strip_line(line) == IF StartsWith(line, "|") THEN Tail(line) ELSE line

strip_chord_markers_for_display(text) ==
    LET lines == SplitLines(text)
    IN  JoinLines([k \in 1..Len(lines) |-> strip_line(lines[k])])

(***************************************************************************)
(* Setlist structure                                                       *)
(***************************************************************************)
\* songs_df: the rows of the song bank
SongBank ==
    << [ Titulo |-> "Samba", Artista |-> "PDL", Tom_Original |-> << "C" >>,
         BPM |-> "90", CifraPath |-> "Data/Chords/Samba.txt",
         CifraSimplificadaPath |-> "Data/Chords/Samba_simpl.txt" ] >>

\* variant: the current key of the new item is left empty
MusicFromRow_no_current_key(row) ==
    [ type |-> "music", title |-> row.Titulo, artist |-> row.Artista,
      tom_original |-> row.Tom_Original, tom |-> << >>,
      bpm |-> row.BPM, cifra_path |-> row.CifraPath,
      cifra_simplificada_path |-> row.CifraSimplificadaPath,
      use_simplificada |-> FALSE, text |-> "" ]

\* the dict appended by "Adicionar selecionadas" for one row of the bank
MusicFromRow(row) ==
    [ type |-> "music", title |-> row.Titulo, artist |-> row.Artista,
      tom_original |-> row.Tom_Original, tom |-> row.Tom_Original,
      bpm |-> row.BPM, cifra_path |-> row.CifraPath,
      cifra_simplificada_path |-> row.CifraSimplificadaPath,
      use_simplificada |-> FALSE, text |-> "" ]

\* the dict appended by "+ Pausa"
PauseItem == [ type |-> "pause", label |-> "Pausa" ]

\* Python None where an item is expected
NoItem == [ type |-> "none" ]

\* "Bloco n", the name a new block gets
BlocoName(n) ==
    CASE n = 1 -> "Bloco 1" [] n = 2 -> "Bloco 2" [] n = 3 -> "Bloco 3"
      [] n = 4 -> "Bloco 4" [] OTHER -> "Bloco 5"

SeqsUpTo(S, n) == UNION { [1..k -> S] : k \in 0..n }

(***************************************************************************)
(* Python list indexing                                                    *)
(***************************************************************************)
\* list[k] does not raise IndexError
PyIndexOK(list, k) == -Len(list) <= k /\ k < Len(list)

\* list[k], negative k counting from the end
PyAt(list, k) == IF k >= 0 THEN list[k + 1] ELSE list[Len(list) + k + 1]

(***************************************************************************)
(* Reordering and removal                                                  *)
(***************************************************************************)
\* list[x], list[y] = list[y], list[x], with 0-based x and y
Swap(list, x, y) ==
    [ k \in 1..Len(list) |->
        IF k = x + 1 THEN list[y + 1]
        ELSE IF k = y + 1 THEN list[x + 1] ELSE list[k] ]

\* del list[x], with 0-based x
RemoveAt(list, x) ==
    [ k \in 1..(Len(list) - 1) |-> IF k < x + 1 THEN list[k] ELSE list[k + 1] ]

\* blocks with the items of block b (0-based) replaced
WithItems(bl, b, items) ==
    [ bl EXCEPT ![b + 1] = [ name |-> bl[b + 1].name, items |-> items ] ]

\* variant: the two assignments of the swap run one after the other
move_item_overwrite(bl, block_idx, item_idx, direction) ==
    LET items == bl[block_idx + 1].items
        new_idx == item_idx + direction
    IN  IF 0 <= new_idx /\ new_idx < Len(items)
        THEN WithItems(bl, block_idx,
                       [ items EXCEPT ![item_idx + 1] = items[new_idx + 1] ])
        ELSE bl

move_item(bl, block_idx, item_idx, direction) ==
    LET items == bl[block_idx + 1].items
        new_idx == item_idx + direction
    IN  IF 0 <= new_idx /\ new_idx < Len(items)
        THEN WithItems(bl, block_idx, Swap(items, item_idx, new_idx))
        ELSE bl

delete_item(bl, block_idx, item_idx) ==
    WithItems(bl, block_idx, RemoveAt(bl[block_idx + 1].items, item_idx))

move_block(bl, block_idx, direction) ==
    LET new_idx == block_idx + direction
    IN  IF 0 <= new_idx /\ new_idx < Len(bl)
        THEN Swap(bl, block_idx, new_idx)
        ELSE bl

\* variant: the block is deleted even when it is the only one
delete_block_unguarded(bl, block_idx) == RemoveAt(bl, block_idx)

delete_block(bl, block_idx) ==
    IF Len(bl) > 1 THEN RemoveAt(bl, block_idx) ELSE bl

(***************************************************************************)
(* Footer look-ahead                                                       *)
(***************************************************************************)
\* the call raised IndexError
Raised == [ mode |-> "IndexError", item |-> NoItem ]

\* variant: the look-ahead reads items[cur_item_idx] instead of the next one
get_footer_context_same_item(bl, b, i) ==
    IF ~ PyIndexOK(bl, b) THEN Raised
    ELSE LET items == PyAt(bl, b).items IN
         IF i + 1 < Len(items)
         THEN IF ~ PyIndexOK(items, i) THEN Raised
              ELSE LET nxt == PyAt(items, i) IN
                   IF nxt.type = "pause"
                   THEN [ mode |-> "next_pause", item |-> nxt ]
                   ELSE [ mode |-> "next_music", item |-> nxt ]
         ELSE IF \E k \in (b + 1)..(Len(bl) - 1) : PyAt(bl, k).items # << >>
              THEN [ mode |-> "end_block", item |-> NoItem ]
              ELSE [ mode |-> "none", item |-> NoItem ]

\* variant: only the block right after the cursor's block is inspected
get_footer_context_next_block_only(bl, b, i) ==
    IF ~ PyIndexOK(bl, b) THEN Raised
    ELSE LET items == PyAt(bl, b).items IN
         IF i + 1 < Len(items)
         THEN IF ~ PyIndexOK(items, i + 1) THEN Raised
              ELSE LET nxt == PyAt(items, i + 1) IN
                   IF nxt.type = "pause"
                   THEN [ mode |-> "next_pause", item |-> nxt ]
                   ELSE [ mode |-> "next_music", item |-> nxt ]
         ELSE IF b + 1 < Len(bl) /\ PyAt(bl, b + 1).items # << >>
              THEN [ mode |-> "end_block", item |-> NoItem ]
              ELSE [ mode |-> "none", item |-> NoItem ]

\* variant: any later block ends the block, whether it holds items or not
get_footer_context_any_later_block(bl, b, i) ==
    IF ~ PyIndexOK(bl, b) THEN Raised
    ELSE LET items == PyAt(bl, b).items IN
         IF i + 1 < Len(items)
         THEN IF ~ PyIndexOK(items, i + 1) THEN Raised
              ELSE LET nxt == PyAt(items, i + 1) IN
                   IF nxt.type = "pause"
                   THEN [ mode |-> "next_pause", item |-> nxt ]
                   ELSE [ mode |-> "next_music", item |-> nxt ]
         ELSE IF b + 1 < Len(bl)
              THEN [ mode |-> "end_block", item |-> NoItem ]
              ELSE [ mode |-> "none", item |-> NoItem ]

get_footer_context(bl, b, i) ==
    IF ~ PyIndexOK(bl, b) THEN Raised
    ELSE LET items == PyAt(bl, b).items IN
         IF i + 1 < Len(items)
         THEN IF ~ PyIndexOK(items, i + 1) THEN Raised
              ELSE LET nxt == PyAt(items, i + 1) IN
                   IF nxt.type = "pause"
                   THEN [ mode |-> "next_pause", item |-> nxt ]
                   ELSE [ mode |-> "next_music", item |-> nxt ]
         ELSE IF \E k \in (b + 1)..(Len(bl) - 1) : PyAt(bl, k).items # << >>
              THEN [ mode |-> "end_block", item |-> NoItem ]
              ELSE [ mode |-> "none", item |-> NoItem ]

(***************************************************************************)
(* Setlist persistence: one CSV row per item                               *)
(***************************************************************************)
\* the row save_current_setlist_to_github builds for item i_idx of block b_idx
SaveRow(b_idx, block, i_idx, item) ==
    LET music == item.type = "music" IN
    [ BlockIndex |-> b_idx, BlockName |-> block.name, ItemIndex |-> i_idx,
      ItemType |-> item.type,
      SongTitle |-> IF music THEN item.title ELSE "",
      Artist |-> IF music THEN item.artist ELSE "",
      Tom |-> IF music THEN item.tom ELSE << >>,
      BPM |-> IF music THEN item.bpm ELSE "",
      CifraPath |-> IF music THEN item.cifra_path ELSE "",
      CifraSimplificadaPath |->
          IF music THEN item.cifra_simplificada_path ELSE "",
      UseSimplificada |->
          IF music THEN (IF item.use_simplificada THEN "1" ELSE "0") ELSE "",
      PauseLabel |-> IF music THEN "" ELSE item.label ]

RECURSIVE SaveRowsFrom(_, _)
SaveRowsFrom(bl, b_idx) ==
    IF b_idx > Len(bl) THEN << >>
    ELSE [ i_idx \in 1..Len(bl[b_idx].items) |->
               SaveRow(b_idx, bl[b_idx], i_idx, bl[b_idx].items[i_idx]) ]
         \o SaveRowsFrom(bl, b_idx + 1)

\* rows of save_current_setlist_to_github: a block without items has no row
SaveRows(bl) == SaveRowsFrom(bl, 1)

\* pandas NaN: what read_csv yields for an empty cell
NaN == "nan"

\* str() of a whole number read into a float column
FloatStr(v) ==
    CASE v = "0" -> "0.0" [] v = "1" -> "1.0" [] v = "90" -> "90.0"
      [] OTHER -> v

\* column col of the table has an empty cell
HasEmptyCell(rows, col) == \E k \in 1..Len(rows) : rows[k][col] = ""

\* str(cell).strip() of a text column after to_csv and read_csv
TextCell(v) == IF v = "" THEN NaN ELSE v

\* str(cell).strip() of a column of whole numbers after to_csv and read_csv:
\* the column is read as float when a cell is empty
NumCell(rows, col, v) ==
    IF v = "" THEN NaN
    ELSE IF HasEmptyCell(rows, col) THEN FloatStr(v) ELSE v

\* load_setlist_df: the table read back from its CSV text
ReadCsv(rows) ==
    [ k \in 1..Len(rows) |->
        [ BlockIndex |-> rows[k].BlockIndex,
          BlockName |-> TextCell(rows[k].BlockName),
          ItemIndex |-> rows[k].ItemIndex,
          ItemType |-> TextCell(rows[k].ItemType),
          SongTitle |-> TextCell(rows[k].SongTitle),
          Artist |-> TextCell(rows[k].Artist),
          Tom |-> IF rows[k].Tom = << >> THEN << "n", "a", "n" >>
                  ELSE rows[k].Tom,
          BPM |-> NumCell(rows, "BPM", rows[k].BPM),
          CifraPath |-> TextCell(rows[k].CifraPath),
          CifraSimplificadaPath |-> TextCell(rows[k].CifraSimplificadaPath),
          UseSimplificada |->
              NumCell(rows, "UseSimplificada", rows[k].UseSimplificada),
          PauseLabel |-> TextCell(rows[k].PauseLabel) ] ]

\* order of sort_values(["BlockIndex","ItemIndex"])
RowLE(r1, r2) ==
    \/ r1.BlockIndex < r2.BlockIndex
    \/ r1.BlockIndex = r2.BlockIndex /\ r1.ItemIndex <= r2.ItemIndex

RECURSIVE InsertRow(_, _)
InsertRow(sorted, r) ==
    IF sorted = << >> THEN << r >>
    ELSE IF RowLE(sorted[Len(sorted)], r) THEN Append(sorted, r)
         ELSE Append(InsertRow(SubSeq(sorted, 1, Len(sorted) - 1), r),
                     sorted[Len(sorted)])

\* variant: the rows are grouped in the order they are stored in
SortRows_as_stored(rows) == rows

RECURSIVE SortRows(_)
\* df_sel.sort_values(["BlockIndex","ItemIndex"])
SortRows(rows) ==
    IF rows = << >> THEN << >>
    ELSE InsertRow(SortRows(SubSeq(rows, 1, Len(rows) - 1)), rows[Len(rows)])

\* Python order of the block names of the model
NameRank(name) ==
    CASE name = "" -> 0 [] name = "Bloco 1" -> 1 [] name = "Bloco 2" -> 2
      [] name = "Bloco 3" -> 3 [] name = "Bloco 4" -> 4
      [] name = "Bloco 5" -> 5 [] OTHER -> 6

\* keys of groupby(["BlockIndex","BlockName"]): a row whose BlockName is NaN
\* belongs to no group (dropna=True is the default)
GroupKeys(rows) ==
    { << rows[k].BlockIndex, rows[k].BlockName >> :
        k \in { j \in 1..Len(rows) : rows[j].BlockName # NaN } }

KeyLE(k1, k2) ==
    \/ k1[1] < k2[1]
    \/ k1[1] = k2[1] /\ NameRank(k1[2]) <= NameRank(k2[2])

RECURSIVE SortKeys(_)
\* the groups in the order groupby(sort=True) yields them
SortKeys(S) ==
    IF S = {} THEN << >>
    ELSE LET m == CHOOSE k \in S : \A o \in S : KeyLE(k, o)
         IN  << m >> \o SortKeys(S \ { m })

\* songs_df[songs_df["Titulo"] == title]
BankRows(title) == SelectSeq(SongBank, LAMBDA sr : sr.Titulo = title)

\* the item load_setlist_into_state builds from one row
RowToItem(row) ==
    IF row.ItemType = "pause"
    THEN [ type |-> "pause", label |-> row.PauseLabel ]
    ELSE LET found == BankRows(row.SongTitle) # << >>
             sr == BankRows(row.SongTitle)[1]
             tom_orig == IF found /\ sr.Tom_Original # << >>
                         THEN sr.Tom_Original ELSE row.Tom
         IN  [ type |-> "music", title |-> row.SongTitle,
               artist |-> row.Artist,
               tom_original |-> tom_orig,
               tom |-> IF row.Tom # << >> THEN row.Tom ELSE tom_orig,
               bpm |-> row.BPM,
               cifra_path |->
                   IF found /\ row.CifraPath = "" THEN sr.CifraPath
                   ELSE row.CifraPath,
               cifra_simplificada_path |->
                   IF found /\ row.CifraSimplificadaPath = ""
                   THEN sr.CifraSimplificadaPath
                   ELSE row.CifraSimplificadaPath,
               use_simplificada |->
                   row.UseSimplificada \in { "1", "true", "y", "yes" },
               text |-> "" ]

\* the blocks load_setlist_into_state builds from a table that is not empty
LoadBlocks(table) ==
    LET df == SortRows(ReadCsv(table))
        keys == SortKeys(GroupKeys(df))
    IN  [ g \in 1..Len(keys) |->
            LET group == SelectSeq(df, LAMBDA r :
                             << r.BlockIndex, r.BlockName >> = keys[g])
            IN  [ name |-> IF keys[g][2] = "" THEN BlocoName(g)
                           ELSE keys[g][2],
                  items |-> [ k \in 1..Len(group) |-> RowToItem(group[k]) ] ] ]

(***************************************************************************)
(* Inputs                                                                  *)
(***************************************************************************)
\* items a block handed to the look-ahead may hold
NavItemSet == { MusicFromRow(SongBank[1]), PauseItem }

\* the item lists of the blocks handed to the look-ahead
NavItemLists == SeqsUpTo(NavItemSet, NavItems)

\* the setlist whose block k is named "Bloco k" and holds the items f[k]
NavSetlist(n, f) ==
    [ k \in 1..n |-> [ name |-> BlocoName(k), items |-> f[k] ] ]

\* cursors handed to the look-ahead, some of them outside the setlist
NavBlockIdx == -1..NavBlocks
NavItemIdx == -2..NavItems

\* characters of a stored chord sheet
TextChars == { "|", " ", "\n", "\r", "C" }

\* the chord sheet "|C   G\n You  and I\n"
ScenarioRaw ==
    << "|", "C", " ", " ", " ", "G", "\n",
       " ", "Y", "o", "u", " ", " ", "a", "n", "d", " ", "I", "\n" >>

\* the raw chord sheets
Texts == SeqsUpTo(TextChars, MaxLen) \cup { ScenarioRaw }

\* characters of a chord sheet with chords in it
ChordChars == { "|", " ", "\n", "E", "b", "#", "m" }

\* the chord sheets with chords
ChordTexts == SeqsUpTo(ChordChars, MaxLen)

\* the current keys of an item whose original key is C: 0, 1 and 2 steps
ChordTargets == { << "C" >>, << "C", "#" >>, << "D" >> }

\* the keys of an item: empty, parseable, not a note
KeyInputs == { << >>, << "C" >>, << "D" >>, << "H" >> }

\* first characters of a key: the pitch letters, two lower-case ones and
\* three characters that name no note
KeyLetters == PitchLetters \cup { "a", "b", "H", "X", "1" }

KeyAccidentals == { << >>, << "#" >>, << "b" >> }

\* quality suffixes: major and minor
KeySuffixes == { << >>, << "m" >> }

\* the keys handed to parse_root_from_key and semitone_diff
Keys ==
    { << l >> \o acc \o suf :
        l \in KeyLetters, acc \in KeyAccidentals, suf \in KeySuffixes }
      \cup { << >>, << " " >>, << " ", "D", "m", " " >> }

\* the roots handed to transpose_root: the keys of NOTE_TO_INDEX and some
\* roots the regular expression matches that are no keys of it
RootInputs ==
    NoteNames \cup { << "C", "b" >>, << "F", "b" >>, << "E", "#" >>,
                     << "B", "#" >> }

StepInputs == (-MaxSteps)..MaxSteps

\* names typed into the "Nome do bloco" field
RenameInputs == { "" }

\* items the editor can put into a block
ItemSet == { MusicFromRow(SongBank[k]) : k \in 1..Len(SongBank) }
               \cup { PauseItem }

\* setlists saved by earlier sessions: block k keeps its name or was renamed
\* to the empty string, and holds one item or none
StoredSetlists ==
    UNION { { [ k \in 1..n |-> [ name |-> nm[k], items |-> f[k] ] ] :
                nm \in { g \in [ 1..n -> { "", "Bloco 1", "Bloco 2",
                                            "Bloco 3", "Bloco 4" } ] :
                             \A k \in 1..n : g[k] \in { "", BlocoName(k) } },
                f \in [ 1..n -> { << >> } \cup { << it >> : it \in ItemSet } ] } :
            n \in 1..StoredBlocks }

\* the CSV tables load_setlist_df can find in storage
StoredTables == { SaveRows(bl) : bl \in StoredSetlists }

(***************************************************************************)
(* Initial values of the three parts of the state                          *)
(***************************************************************************)
NoOp == [ name |-> "init", b |-> 0, i |-> 0, d |-> 0 ]

\* Python None where st.session_state.current_item or the selection is read
NoCursor == << >>

\* init_state
EditorInit ==
    /\ blocks = << [ name |-> "Bloco 1", items |-> << >> ] >>
    /\ screen = "home"
    /\ current_item = NoCursor
    /\ selected_idx = NoCursor
    /\ setlist_name = "Pagode do LEC"
    /\ preview_item = NoItem
    /\ op = NoOp
    /\ old_blocks = blocks
    /\ old_session = [ current_item |-> current_item,
                       selected_idx |-> selected_idx,
                       setlist_name |-> setlist_name, screen |-> screen ]

\* nothing read from or written to storage yet
StoreIdle ==
    /\ csv_file = << >>
    /\ df_sel = << >>
    /\ chord_store = << >>
    /\ chord_cache = << >>
    /\ chord_path = ""
    /\ old_cache = << >>
    /\ http_ok = TRUE

NavIdle ==
    /\ cur_block_idx = 0
    /\ cur_item_idx = 0
    /\ footer_mode = "none"
    /\ footer_next_item = NoItem

TextIdle ==
    /\ raw_body = << >>
    /\ tom_original = << >>
    /\ tom_atual = << >>
    /\ body_transposed = << >>
    /\ body_norm = << >>
    /\ body_final = << >>
    /\ diff_steps = 0
    /\ pc = "idle"

KeyIdle ==
    /\ key_root = << >>
    /\ tr_root = << >>
    /\ tr_steps = 0
    /\ tr_result = << >>
    /\ tr_back = << >>

(***************************************************************************)
(* The script run that follows every handler: st.rerun() runs main again,  *)
(* which draws the tree, the editor of the selected item and the preview.  *)
(***************************************************************************)
\* 0 <= b < len(blocks) and 0 <= i < len(blocks[b]["items"])
InSetlist(bl, cur) ==
    /\ cur # NoCursor
    /\ 0 <= cur[1] /\ cur[1] < Len(bl)
    /\ 0 <= cur[2] /\ cur[2] < Len(bl[cur[1] + 1].items)

\* the value the BPM field of the selected item shows and writes back
BpmField(bpm_val) ==
    IF bpm_val \in { "", "0", "None" } THEN "" ELSE bpm_val

\* render_selected_item_editor without a click: the BPM field of a selected
\* music item, and the label of a selected pause, are written back
RenderSelected(bl, sel) ==
    IF ~InSetlist(bl, sel) THEN bl
    ELSE LET items == bl[sel[1] + 1].items
             item == items[sel[2] + 1]
         IN  IF item.type = "music"
             THEN WithItems(bl, sel[1],
                      [ items EXCEPT ![sel[2] + 1] =
                          [ item EXCEPT !.bpm = BpmField(item.bpm) ] ])
             ELSE bl

\* the blocks that hold at least one item, by 1-based position
NonEmptyBlocks(bl) == { k \in 1..Len(bl) : bl[k].items # << >> }

\* the 0-based index of the first block that holds an item
FirstNonEmpty(bl) ==
    (CHOOSE k \in NonEmptyBlocks(bl) :
        \A j \in NonEmptyBlocks(bl) : k <= j) - 1

\* what the preview shows when it shows nothing
NoPage ==
    [ item |-> NoItem, b |-> 0, i |-> 0, mode |-> "none", next |-> NoItem ]

\* variant: the cursor is used as it is stored, without the range test
Preview_stored_cursor(bl, cur) ==
    IF cur = NoCursor /\ NonEmptyBlocks(bl) = { } THEN NoPage
    ELSE LET b == IF cur # NoCursor THEN cur[1] ELSE FirstNonEmpty(bl)
             i == IF cur # NoCursor THEN cur[2] ELSE 0
         IN  IF InSetlist(bl, << b, i >>)
             THEN [ item |-> bl[b + 1].items[i + 1], b |-> b, i |-> i,
                    mode |-> get_footer_context(bl, b, i).mode,
                    next |-> get_footer_context(bl, b, i).item ]
             ELSE [ item |-> NoItem, b |-> b, i |-> i,
                    mode |-> Raised.mode, next |-> NoItem ]

\* the preview of main: the stored cursor when it designates an item, else
\* the first item of the first block that has one, else no page
Preview(bl, cur) ==
    IF ~InSetlist(bl, cur) /\ NonEmptyBlocks(bl) = { } THEN NoPage
    ELSE LET b == IF InSetlist(bl, cur) THEN cur[1] ELSE FirstNonEmpty(bl)
             i == IF InSetlist(bl, cur) THEN cur[2] ELSE 0
         IN  [ item |-> bl[b + 1].items[i + 1], b |-> b, i |-> i,
               mode |-> get_footer_context(bl, b, i).mode,
               next |-> get_footer_context(bl, b, i).item ]

\* the locals of the preview of main
Shows(page) ==
    /\ preview_item = page.item
    /\ cur_block_idx = page.b
    /\ cur_item_idx = page.i
    /\ footer_mode = page.mode
    /\ footer_next_item = page.next

\* the session after a handler left it with these values and the script
\* ran again; the home screen draws no editor and no preview
Rerun(bl, cur, sel, name, scr) ==
    /\ \E handled \in { bl } :
          blocks' = IF scr = "editor" THEN RenderSelected(handled, sel)
                    ELSE handled
    /\ current_item' = cur
    /\ selected_idx' = sel
    /\ setlist_name' = name
    /\ screen' = scr
    /\ \E page \in { IF scr = "editor" THEN Preview(blocks', cur)
                      ELSE NoPage } :
          /\ preview_item' = page.item
          /\ cur_block_idx' = page.b
          /\ cur_item_idx' = page.i
          /\ footer_mode' = page.mode
          /\ footer_next_item' = page.next

(***************************************************************************)
(* The handlers: one definition per button of render_home, main,           *)
(* render_setlist_editor_tree and render_selected_item_editor.             *)
(***************************************************************************)
RECURSIVE TotalItems(_)
\* the number of items of all blocks
TotalItems(bl) ==
    IF bl = << >> THEN 0 ELSE Len(bl[1].items) + TotalItems(Tail(bl))

BlockIdx == 0..(Len(blocks) - 1)
ItemIdx(b) == 0..(Len(blocks[b + 1].items) - 1)

\* the keys the "Tom" box offers for an item whose original key is major
ToneInputs == { << "C" >>, << "D" >> }

\* the names list_setlist_names finds in storage
StoredNames == { "Show" }

\* the item the selection designates
SelectedItem == blocks[selected_idx[1] + 1].items[selected_idx[2] + 1]

\* the blocks with the selected item replaced
WithSelected(item) ==
    WithItems(blocks, selected_idx[1],
        [ blocks[selected_idx[1] + 1].items EXCEPT
            ![selected_idx[2] + 1] = item ])

\* "Criar setlist", the name field left as it is
DoCreateSetlist ==
    /\ screen = "home"
    /\ Rerun(<< [ name |-> "Bloco 1", items |-> << >> ] >>, NoCursor,
             NoCursor,
             IF setlist_name = "" THEN "Setlist sem nome" ELSE setlist_name,
             "editor")

\* the blocks of every stored table, as load_setlist_into_state builds them
LoadedBlocks == [ table \in StoredTables |-> LoadBlocks(table) ]

\* variant: a table without rows opens the editor on an empty setlist
DoLoadSetlist_reset_on_empty(name, table) ==
    /\ screen = "home"
    /\ Rerun(IF table = << >> THEN << >> ELSE LoadBlocks(table),
             NoCursor, NoCursor, name, "editor")

\* "Carregar esta setlist": load_setlist_into_state
DoLoadSetlist(name, table) ==
    /\ screen = "home"
    /\ IF table = << >>
       THEN Rerun(blocks, current_item, selected_idx, setlist_name, screen)
       ELSE Rerun(LoadBlocks(table), NoCursor, NoCursor, name, "editor")

\* "Voltar a tela inicial"
DoGoHome ==
    /\ screen = "editor"
    /\ Rerun(blocks, current_item, selected_idx, setlist_name, "home")

\* "+ Adicionar bloco"
DoAddBlock ==
    /\ screen = "editor"
    /\ Rerun(Append(blocks, [ name |-> BlocoName(Len(blocks) + 1),
                              items |-> << >> ]),
             current_item, selected_idx, setlist_name, screen)

\* the "Nome do bloco" field
DoRenameBlock(b, new_name) ==
    /\ screen = "editor"
    /\ Rerun([ blocks EXCEPT ![b + 1] =
                 [ name |-> new_name, items |-> blocks[b + 1].items ] ],
             current_item, selected_idx, setlist_name, screen)

DoMoveBlock(b, d) ==
    /\ screen = "editor"
    /\ Rerun(move_block(blocks, b, d),
             current_item, selected_idx, setlist_name, screen)

DoDeleteBlock(b) ==
    /\ screen = "editor"
    /\ Rerun(delete_block(blocks, b),
             current_item, selected_idx, setlist_name, screen)

\* the button with the title of item i of block b
DoSelectItem(b, i) ==
    /\ screen = "editor"
    /\ Rerun(blocks, << b, i >>, << b, i >>, setlist_name, screen)

\* the preview button of item i of block b
DoPreviewItem(b, i) ==
    /\ screen = "editor"
    /\ Rerun(blocks, << b, i >>, selected_idx, setlist_name, screen)

\* variant: the cursor and the selection follow the item that moved
DoMoveItem_cursor_follows(b, i, d) ==
    /\ screen = "editor"
    /\ LET moved == move_item(blocks, b, i, d) # blocks
           follow(cur) == IF moved /\ cur = << b, i >>
                          THEN << b, i + d >> ELSE cur
       IN  Rerun(move_item(blocks, b, i, d), follow(current_item),
                 follow(selected_idx), setlist_name, screen)

DoMoveItem(b, i, d) ==
    /\ screen = "editor"
    /\ Rerun(move_item(blocks, b, i, d),
             current_item, selected_idx, setlist_name, screen)

DoDeleteItem(b, i) ==
    /\ screen = "editor"
    /\ Rerun(delete_item(blocks, b, i),
             current_item, selected_idx, setlist_name, screen)

\* "+ Pausa"
DoAddPause(b) ==
    /\ screen = "editor"
    /\ Rerun(WithItems(blocks, b, Append(blocks[b + 1].items, PauseItem)),
             current_item, selected_idx, setlist_name, screen)

\* "Adicionar selecionadas", with row k of the bank selected
DoAddMusic(b, k) ==
    /\ screen = "editor"
    /\ Rerun(WithItems(blocks, b, Append(blocks[b + 1].items,
                                         MusicFromRow(SongBank[k]))),
             current_item, selected_idx, setlist_name, screen)

\* variant: the new key is written to the original key as well
Retuned_both_keys(item, selected_tone) ==
    [ item EXCEPT !.tom = selected_tone, !.tom_original = selected_tone ]

\* the selected item with the key chosen in the "Tom" box
Retuned(item, selected_tone) == [ item EXCEPT !.tom = selected_tone ]

\* the "Tom" box of the selected music item set to another key
DoRetune(selected_tone) ==
    /\ screen = "editor"
    /\ InSetlist(blocks, selected_idx)
    /\ SelectedItem.type = "music"
    /\ selected_tone # SelectedItem.tom
    /\ Rerun(WithSelected(Retuned(SelectedItem, selected_tone)),
             selected_idx, selected_idx, setlist_name, screen)

\* "Usar cifra SIMPLIFICADA" / "Usar cifra ORIGINAL" of the selected item
DoToggleSimplificada ==
    /\ screen = "editor"
    /\ InSetlist(blocks, selected_idx)
    /\ SelectedItem.type = "music"
    /\ Rerun(WithSelected([ SelectedItem EXCEPT !.use_simplificada =
                               ~SelectedItem.use_simplificada ]),
             selected_idx, selected_idx, setlist_name, screen)

(***************************************************************************)
(* The session: any sequence of handlers from init_state.  The handlers    *)
(* that write to storage without touching the session ("Salvar setlist",   *)
(* "Salvar cifra") are actions of SpecOps and SpecStore; a load reads any  *)
(* table an earlier save can have written.                                 *)
(***************************************************************************)
Free == UNCHANGED << histVars, old_session, textVars, keyVars, storeVars >>

CreateSetlist == DoCreateSetlist /\ Free

LoadSetlist(name, table) ==
    /\ screen = "home"
    /\ IF table = << >>
       THEN Rerun(blocks, current_item, selected_idx, setlist_name, screen)
       ELSE Rerun(LoadedBlocks[table], NoCursor, NoCursor, name, "editor")
    /\ Free

GoHome == DoGoHome /\ Free

AddBlock == Len(blocks) < MaxBlocks /\ DoAddBlock /\ Free

RenameBlock(b, new_name) == DoRenameBlock(b, new_name) /\ Free

MoveBlock(b, d) == DoMoveBlock(b, d) /\ Free

DeleteBlock(b) == DoDeleteBlock(b) /\ Free

SelectItem(b, i) == DoSelectItem(b, i) /\ Free

PreviewItem(b, i) == DoPreviewItem(b, i) /\ Free

MoveItem(b, i, d) == DoMoveItem(b, i, d) /\ Free

DeleteItem(b, i) == DoDeleteItem(b, i) /\ Free

AddPause(b) == TotalItems(blocks) < MaxItems /\ DoAddPause(b) /\ Free

AddMusic(b, k) == TotalItems(blocks) < MaxItems /\ DoAddMusic(b, k) /\ Free

Retune(selected_tone) == DoRetune(selected_tone) /\ Free

ToggleSimplificada == DoToggleSimplificada /\ Free

Next ==
    \/ CreateSetlist
    \/ \E name \in StoredNames, table \in StoredTables : LoadSetlist(name, table)
    \/ GoHome
    \/ AddBlock
    \/ \E b \in BlockIdx, new_name \in RenameInputs : RenameBlock(b, new_name)
    \/ \E b \in BlockIdx, d \in { -1, 1 } : MoveBlock(b, d)
    \/ \E b \in BlockIdx : DeleteBlock(b)
    \/ \E b \in BlockIdx : \E i \in ItemIdx(b) : SelectItem(b, i)
    \/ \E b \in BlockIdx : \E i \in ItemIdx(b) : PreviewItem(b, i)
    \/ \E b \in BlockIdx : \E i \in ItemIdx(b), d \in { -1, 1 } : MoveItem(b, i, d)
    \/ \E b \in BlockIdx : \E i \in ItemIdx(b) : DeleteItem(b, i)
    \/ \E b \in BlockIdx : AddPause(b)
    \/ \E b \in BlockIdx, k \in 1..Len(SongBank) : AddMusic(b, k)
    \/ \E selected_tone \in ToneInputs : Retune(selected_tone)
    \/ ToggleSimplificada

Init == EditorInit /\ StoreIdle /\ NavIdle /\ TextIdle /\ KeyIdle

Spec == Init /\ [][Next]_vars

(***************************************************************************)
(* One handler applied once to every session                               *)
(***************************************************************************)
\* items of the setlists the handlers start from: the items the editor adds
\* and a music item retuned to D
OpsItemSet ==
    ItemSet \cup { [ MusicFromRow(SongBank[k]) EXCEPT !.tom = << "D" >> ] :
                     k \in 1..Len(SongBank) }

\* the values of current_item and of the selection: None and every position
\* of a setlist, whether the setlist at hand has an item there or not
Cursors ==
    { NoCursor } \cup { << b, i >> : b \in 0..(MaxBlocks - 1),
                                     i \in 0..(MaxItems - 1) }

\* the setlists of one block with up to MaxItems items
SingleBlockSetlists ==
    { << [ name |-> "Bloco 1", items |-> items ] >> :
        items \in SeqsUpTo(ItemSet, MaxItems) }

\* the editor is open on a setlist, block k named "Bloco k"
OpsEditorInit ==
    /\ \E n \in 1..MaxBlocks :
          \E f \in [ 1..n -> SeqsUpTo(OpsItemSet, MaxItems) ] :
             /\ blocks = [ k \in 1..n |->
                             [ name |-> BlocoName(k), items |-> f[k] ] ]
             /\ TotalItems(blocks) <= MaxItems
    /\ screen = "editor"
    /\ current_item \in Cursors
    /\ selected_idx \in { NoCursor, << 0, 0 >>, current_item }
    /\ csv_file = << >>

\* the home screen after "Salvar setlist" and "Voltar a tela inicial": the
\* file holds the rows save_current_setlist_to_github wrote for the blocks
OpsHomeInit ==
    /\ blocks \in StoredSetlists \cup SingleBlockSetlists
    /\ screen = "home"
    /\ current_item \in { NoCursor, << 0, 0 >> }
    /\ selected_idx \in { NoCursor, << 0, 0 >> }
    /\ csv_file = SaveRows(blocks)

OpsInit ==
    /\ OpsEditorInit \/ OpsHomeInit
    /\ setlist_name = "Pagode do LEC"
    /\ Shows(IF screen = "editor" THEN Preview(blocks, current_item)
             ELSE NoPage)
    /\ op = NoOp
    /\ old_blocks = blocks
    /\ old_session = [ current_item |-> current_item,
                       selected_idx |-> selected_idx,
                       setlist_name |-> setlist_name, screen |-> screen ]
    /\ df_sel = << >>
    /\ chord_store = << >>
    /\ chord_cache = << >>
    /\ chord_path = ""
    /\ old_cache = << >>
    /\ http_ok = TRUE
    /\ TextIdle
    /\ KeyIdle

\* no handler ran yet
Fresh == op.name = "init"

\* the handler that ran, its arguments and the session it started from
Hist(name, b, i, d) ==
    /\ op' = [ name |-> name, b |-> b, i |-> i, d |-> d ]
    /\ old_blocks' = blocks
    /\ old_session' = [ current_item |-> current_item,
                        selected_idx |-> selected_idx,
                        setlist_name |-> setlist_name, screen |-> screen ]
    /\ UNCHANGED << textVars, keyVars >>

Ran(name, b, i, d) == Hist(name, b, i, d) /\ UNCHANGED storeVars

CallMoveBlock(b, d) == Fresh /\ DoMoveBlock(b, d) /\ Ran("move_block", b, 0, d)

CallDeleteBlock(b) == Fresh /\ DoDeleteBlock(b) /\ Ran("delete_block", b, 0, 0)

CallMoveItem(b, i, d) == Fresh /\ DoMoveItem(b, i, d) /\ Ran("move_item", b, i, d)

CallDeleteItem(b, i) == Fresh /\ DoDeleteItem(b, i) /\ Ran("delete_item", b, i, 0)

CallAddPause(b) == Fresh /\ DoAddPause(b) /\ Ran("add_pause", b, 0, 0)

CallAddMusic(b, k) == Fresh /\ DoAddMusic(b, k) /\ Ran("add_music", b, k, 0)

CallAddBlock == Fresh /\ DoAddBlock /\ Ran("add_block", 0, 0, 0)

CallRenameBlock(b, new_name) == Fresh /\ DoRenameBlock(b, new_name) /\ Ran("rename_block", b, 0, 0)

CallSelectItem(b, i) == Fresh /\ DoSelectItem(b, i) /\ Ran("select_item", b, i, 0)

CallPreviewItem(b, i) == Fresh /\ DoPreviewItem(b, i) /\ Ran("preview_item", b, i, 0)

CallRetune(selected_tone) ==
    /\ Fresh
    /\ DoRetune(selected_tone)
    /\ Ran("retune", selected_idx[1], selected_idx[2], 0)

CallToggleSimplificada ==
    /\ Fresh
    /\ DoToggleSimplificada
    /\ Ran("toggle_simplificada", selected_idx[1], selected_idx[2], 0)

CallGoHome == Fresh /\ DoGoHome /\ Ran("go_home", 0, 0, 0)

CallCreateSetlist == Fresh /\ DoCreateSetlist /\ Ran("create_setlist", 0, 0, 0)

\* "Salvar setlist": save_current_setlist_to_github; the file is replaced
\* when the write to storage succeeds
CallSaveSetlist(ok) ==
    /\ Fresh
    /\ screen = "editor"
    /\ Rerun(blocks, current_item, selected_idx, setlist_name, screen)
    /\ csv_file' = IF ok THEN SaveRows(blocks) ELSE csv_file
    /\ http_ok' = ok
    /\ Hist("save_setlist", 0, 0, 0)
    /\ UNCHANGED << df_sel, chord_store, chord_cache, chord_path, old_cache >>

\* the rows of a table in every order
RowOrders(table) ==
    { [ k \in 1..Len(table) |-> table[p[k]] ] :
        p \in Permutations(1..Len(table)) }

\* "Carregar esta setlist": load_setlist_df reads the file, whose rows may
\* have been reordered in storage, or fails and returns a table with no row
CallLoadSetlist(name, table, ok) ==
    /\ Fresh
    /\ df_sel' = IF ok THEN table ELSE << >>
    /\ http_ok' = ok
    /\ DoLoadSetlist(name, IF ok THEN table ELSE << >>)
    /\ Hist("load_setlist", 0, 0, 0)
    /\ UNCHANGED << csv_file, chord_store, chord_cache, chord_path,
                    old_cache >>

OpsNext ==
    \/ \E b \in BlockIdx, d \in { -1, 1 } : CallMoveBlock(b, d)
    \/ \E b \in BlockIdx : CallDeleteBlock(b)
    \/ \E b \in BlockIdx : \E i \in ItemIdx(b), d \in { -1, 1 } : CallMoveItem(b, i, d)
    \/ \E b \in BlockIdx : \E i \in ItemIdx(b) : CallDeleteItem(b, i)
    \/ \E b \in BlockIdx : CallAddPause(b)
    \/ \E b \in BlockIdx, k \in 1..Len(SongBank) : CallAddMusic(b, k)
    \/ CallAddBlock
    \/ \E b \in BlockIdx, new_name \in RenameInputs : CallRenameBlock(b, new_name)
    \/ \E b \in BlockIdx : \E i \in ItemIdx(b) : CallSelectItem(b, i)
    \/ \E b \in BlockIdx : \E i \in ItemIdx(b) : CallPreviewItem(b, i)
    \/ \E selected_tone \in ToneInputs : CallRetune(selected_tone)
    \/ CallToggleSimplificada
    \/ CallGoHome
    \/ CallCreateSetlist
    \/ \E ok \in BOOLEAN : CallSaveSetlist(ok)
    \/ \E name \in StoredNames, table \in RowOrders(csv_file), ok \in BOOLEAN :
          CallLoadSetlist(name, table, ok)

SpecOps == OpsInit /\ [][OpsNext]_vars

(***************************************************************************)
(* Footer look-ahead applied to every setlist and cursor                   *)
(***************************************************************************)
NavInit ==
    /\ \E n \in 1..NavBlocks :
          \E f \in [ 1..n -> NavItemLists ] : blocks = NavSetlist(n, f)
    /\ screen = "editor"
    /\ current_item = NoCursor
    /\ selected_idx = NoCursor
    /\ setlist_name = "Pagode do LEC"
    /\ preview_item = NoItem
    /\ op = NoOp
    /\ old_blocks = blocks
    /\ old_session = [ current_item |-> current_item,
                       selected_idx |-> selected_idx,
                       setlist_name |-> setlist_name, screen |-> screen ]
    /\ StoreIdle
    /\ NavIdle
    /\ TextIdle
    /\ KeyIdle

\* footer_mode, footer_next_item = get_footer_context(blocks, b, i)
FooterAt(b, i) ==
    /\ op.name = "init"
    /\ cur_block_idx' = b
    /\ cur_item_idx' = i
    /\ footer_mode' = get_footer_context(blocks, b, i).mode
    /\ footer_next_item' = get_footer_context(blocks, b, i).item
    /\ op' = [ name |-> "get_footer_context", b |-> b, i |-> i, d |-> 0 ]
    /\ UNCHANGED << blocks, screen, old_blocks >>
    /\ UNCHANGED << textVars, keyVars, sessionVars, storeVars >>

NavNext == \E b \in NavBlockIdx, i \in NavItemIdx : FooterAt(b, i)

SpecNav == NavInit /\ [][NavNext]_vars

(***************************************************************************)
(* Display pipeline of build_sheet_page_html for a music item              *)
(***************************************************************************)
TextInit ==
    /\ EditorInit
    /\ StoreIdle
    /\ NavIdle
    /\ raw_body \in Texts
    /\ tom_original \in KeyInputs
    /\ tom_atual \in KeyInputs
    /\ body_transposed = << >>
    /\ body_norm = << >>
    /\ body_final = << >>
    /\ diff_steps = 0
    /\ KeyIdle
    /\ pc = "transpose"

Transpose ==
    /\ pc = "transpose"
    /\ diff_steps' = semitone_diff(tom_original, tom_atual)
    /\ body_transposed' = transpose_body_text(raw_body, tom_original, tom_atual)
    /\ pc' = "normalize"
    /\ UNCHANGED << raw_body, tom_original, tom_atual, body_norm, body_final >>
    /\ UNCHANGED << editorVars, navVars, keyVars, sessionVars, storeVars >>

Normalize ==
    /\ pc = "normalize"
    /\ body_norm' = normalize_lyrics_indent(body_transposed)
    /\ pc' = "strip"
    /\ UNCHANGED << raw_body, tom_original, tom_atual, body_transposed,
                    body_final, diff_steps >>
    /\ UNCHANGED << editorVars, navVars, keyVars, sessionVars, storeVars >>

StripMarkers ==
    /\ pc = "strip"
    /\ body_final' = strip_chord_markers_for_display(body_norm)
    /\ pc' = "done"
    /\ UNCHANGED << raw_body, tom_original, tom_atual, body_transposed,
                    body_norm, diff_steps >>
    /\ UNCHANGED << editorVars, navVars, keyVars, sessionVars, storeVars >>

TextNext == Transpose \/ Normalize \/ StripMarkers

SpecText == TextInit /\ [][TextNext]_vars

(***************************************************************************)
(* The display pipeline applied to chord sheets with chords                *)
(***************************************************************************)
ChordInit ==
    /\ EditorInit
    /\ StoreIdle
    /\ NavIdle
    /\ raw_body \in ChordTexts
    /\ tom_original = << "C" >>
    /\ tom_atual \in ChordTargets
    /\ body_transposed = << >>
    /\ body_norm = << >>
    /\ body_final = << >>
    /\ diff_steps = 0
    /\ KeyIdle
    /\ pc = "transpose"

SpecChord == ChordInit /\ [][TextNext]_vars

(***************************************************************************)
(* The key functions applied to every key, root and number of steps        *)
(***************************************************************************)
KeyInit ==
    /\ EditorInit
    /\ StoreIdle
    /\ NavIdle
    /\ raw_body = << >>
    /\ body_transposed = << >>
    /\ body_norm = << >>
    /\ body_final = << >>
    /\ diff_steps = 0
    /\ key_root = << >>
    /\ tr_steps = 0
    /\ tr_result = << >>
    /\ tr_back = << >>
    /\ \/ /\ tom_original \in Keys
          /\ tom_atual \in Keys
          /\ tr_root = << >>
          /\ pc = "parse_root_from_key"
       \/ /\ tom_original = << >>
          /\ tom_atual = << >>
          /\ tr_root \in RootInputs
          /\ pc = "transpose_root"

\* key_root = parse_root_from_key(tom_original)
ParseKey ==
    /\ pc = "parse_root_from_key"
    /\ key_root' = parse_root_from_key(tom_original)
    /\ pc' = "semitone_diff"
    /\ UNCHANGED << raw_body, tom_original, tom_atual, body_transposed,
                    body_norm, body_final, diff_steps >>
    /\ UNCHANGED << tr_root, tr_steps, tr_result, tr_back >>
    /\ UNCHANGED << editorVars, navVars, sessionVars, storeVars >>

\* diff_steps = semitone_diff(tom_original, tom_atual)
SemitoneDiff ==
    /\ pc = "semitone_diff"
    /\ diff_steps' = semitone_diff(tom_original, tom_atual)
    /\ pc' = "repl"
    /\ UNCHANGED << raw_body, tom_original, tom_atual, body_transposed,
                    body_norm, body_final >>
    /\ UNCHANGED << editorVars, navVars, keyVars, sessionVars, storeVars >>

\* transpose_body_text on the chord line that holds the root of the original
\* key: with steps = 0 the text is returned as it is, otherwise repl
\* replaces the root, when the pattern matches it, by transpose_root
ReplOrigin ==
    /\ pc = "repl"
    /\ tr_steps' = diff_steps
    /\ tr_result' = IF diff_steps = 0 \/ key_root = NoRoot
                       \/ key_root[1] \notin PitchLetters
                    THEN key_root
                    ELSE transpose_root(key_root, diff_steps)
    /\ pc' = "done"
    /\ UNCHANGED << raw_body, tom_original, tom_atual, body_transposed,
                    body_norm, body_final, diff_steps >>
    /\ UNCHANGED << key_root, tr_root, tr_back >>
    /\ UNCHANGED << editorVars, navVars, sessionVars, storeVars >>

\* tr_result = transpose_root(tr_root, n)
TransposeRoot(n) ==
    /\ pc = "transpose_root"
    /\ tr_steps' = n
    /\ tr_result' = transpose_root(tr_root, n)
    /\ pc' = "transpose_back"
    /\ UNCHANGED << raw_body, tom_original, tom_atual, body_transposed,
                    body_norm, body_final, diff_steps >>
    /\ UNCHANGED << key_root, tr_root, tr_back >>
    /\ UNCHANGED << editorVars, navVars, sessionVars, storeVars >>

\* tr_back = transpose_root(tr_result, -tr_steps)
TransposeBack ==
    /\ pc = "transpose_back"
    /\ tr_back' = transpose_root(tr_result, -tr_steps)
    /\ pc' = "done"
    /\ UNCHANGED << raw_body, tom_original, tom_atual, body_transposed,
                    body_norm, body_final, diff_steps >>
    /\ UNCHANGED << key_root, tr_root, tr_steps, tr_result >>
    /\ UNCHANGED << editorVars, navVars, sessionVars, storeVars >>

KeyNext ==
    \/ ParseKey
    \/ SemitoneDiff
    \/ ReplOrigin
    \/ \E n \in StepInputs : TransposeRoot(n)
    \/ TransposeBack

SpecKey == KeyInit /\ [][KeyNext]_vars

(***************************************************************************)
(* Properties of the footer look-ahead (SpecNav)                           *)
(***************************************************************************)
FooterCalled == op.name = "get_footer_context"

\* the cursor's block exists, 0-based
CursorInBlock == 0 <= cur_block_idx /\ cur_block_idx < Len(blocks)

CursorItems == blocks[cur_block_idx + 1].items

\* a block strictly after the cursor's block holds an item
LaterItems ==
    \E k \in (cur_block_idx + 2)..Len(blocks) : blocks[k].items # << >>

\* C1: when itemIdx + 1 is a valid index of the cursor's block, the footer
\* is NEXT_PAUSE with the item at itemIdx + 1 if that item is a pause and
\* NEXT_MUSIC with that item otherwise, whatever the later blocks hold.
C1_NextItemFooter ==
    ( FooterCalled /\ CursorInBlock
        /\ 0 <= cur_item_idx + 1 /\ cur_item_idx + 1 < Len(CursorItems) )
    => LET nxt == CursorItems[cur_item_idx + 2]
       IN  /\ footer_next_item = nxt
           /\ footer_mode = IF nxt.type = "pause" THEN "next_pause"
                             ELSE "next_music"

\* a pause follows the cursor while a later block holds items
C1_Witness ==
    /\ FooterCalled /\ CursorInBlock
    /\ 0 <= cur_item_idx /\ cur_item_idx + 1 < Len(CursorItems)
    /\ CursorItems[cur_item_idx + 1].type = "music"
    /\ CursorItems[cur_item_idx + 2].type = "pause"
    /\ LaterItems
    /\ footer_mode = "next_pause"

\* C2: at or past the last item of its block, with an item in some later
\* block, the footer is END_OF_BLOCK without an item, however many empty
\* blocks lie in between.
C2_EndOfBlockFooter ==
    ( FooterCalled /\ CursorInBlock
        /\ cur_item_idx + 1 >= Len(CursorItems) /\ LaterItems )
    => footer_mode = "end_block" /\ footer_next_item = NoItem

\* the cursor is on the last item, the next block is empty, the one after
\* it is not
C2_Witness ==
    /\ FooterCalled /\ CursorInBlock
    /\ cur_item_idx >= 0 /\ cur_item_idx + 1 = Len(CursorItems)
    /\ cur_block_idx + 3 <= Len(blocks)
    /\ blocks[cur_block_idx + 2].items = << >>
    /\ blocks[cur_block_idx + 3].items # << >>
    /\ footer_mode = "end_block"

\* C3: at or past the last item of its block, with no item in any later
\* block, the footer is NONE without an item.
C3_NoneFooter ==
    ( FooterCalled /\ CursorInBlock
        /\ cur_item_idx + 1 >= Len(CursorItems) /\ ~ LaterItems )
    => footer_mode = "none" /\ footer_next_item = NoItem

\* the cursor is on the last item and only empty blocks follow
C3_Witness ==
    /\ FooterCalled /\ CursorInBlock
    /\ cur_item_idx >= 0 /\ cur_item_idx + 1 = Len(CursorItems)
    /\ cur_block_idx + 1 < Len(blocks)
    /\ ~ LaterItems
    /\ footer_mode = "none"

FooterModes == { "next_music", "next_pause", "end_block", "none" }

C4_AtLeastOneBlock == Len(blocks) >= 1

\* C5: delete_block leaves a setlist of one block as it is; with more
\* blocks it removes the block at blockIdx and keeps the others in order.
C5_DeleteBlock ==
    op.name = "delete_block"
    => IF Len(old_blocks) = 1
       THEN blocks = old_blocks
       ELSE /\ Len(blocks) = Len(old_blocks) - 1
            /\ \A k \in 1..Len(blocks) :
                  blocks[k] = IF k <= op.b THEN old_blocks[k]
                              ELSE old_blocks[k + 1]

\* a block that is not the last one was deleted
C5_Witness ==
    /\ op.name = "delete_block"
    /\ Len(old_blocks) > 1
    /\ op.b + 1 < Len(old_blocks)
    /\ Len(blocks) = Len(old_blocks) - 1

\* positions k and n of new hold what n and k of old held, the rest is equal
Swapped(old, new, k, n) ==
    /\ Len(new) = Len(old)
    /\ new[k] = old[n]
    /\ new[n] = old[k]
    /\ \A j \in 1..Len(old) : j \notin { k, n } => new[j] = old[j]

TwoSpaceLine(text) ==
    \E k \in 1..Len(SplitLines(text)) :
        LET line == SplitLines(text)[k]
        IN  Len(line) >= 2 /\ line[1] = " " /\ line[2] = " "

EndsWithNewline(text) == text # << >> /\ text[Len(text)] = "\n"

\* C8 as stated: normalizing a normalized text changes nothing, for every
\* text, also one with lines that start with two or more spaces.
C8_Idempotent ==
    pc \in { "strip", "done" }
    => normalize_lyrics_indent(body_norm) = body_norm

\* C8: normalizing a normalized text changes nothing, for every text in
\* which no line starts with two or more spaces and whose normalized form
\* does not end with a line break.
C8_IdempotentOnSingleIndent ==
    ( pc \in { "strip", "done" }
        /\ ~ TwoSpaceLine(body_transposed)
        /\ ~ EndsWithNewline(body_norm) )
    => normalize_lyrics_indent(body_norm) = body_norm

\* a lyric line lost its space and a chord line kept its marker
C8_Witness ==
    /\ pc = "strip"
    /\ body_transposed = << "|", "\n", " ", "C" >>
    /\ body_norm = << "|", "\n", "C" >>

ScenarioDone ==
    /\ pc = "done"
    /\ raw_body = ScenarioRaw
    /\ tom_original = << "C" >>
    /\ tom_atual = << "D" >>

\* the chord line "|D   A" and the lyric line " You  and I"
ScenarioTransposedLines ==
    << << "|", "D", " ", " ", " ", "A" >>,
       << " ", "Y", "o", "u", " ", " ", "a", "n", "d", " ", "I" >> >>

\* the display text "D   A\nYou  and I"
ScenarioDisplay ==
    << "D", " ", " ", " ", "A", "\n",
       "Y", "o", "u", " ", " ", "a", "n", "d", " ", "I" >>

\* C9 as stated: "|C   G\n You  and I\n" from C to D has the transposed
\* chord line "|D   A", the lyric line unchanged, and the display text
\* "D   A\nYou  and I\n", final newline included.
C9_ScenarioKeepsFinalNewline ==
    ScenarioDone
    => /\ SplitLines(body_transposed) = ScenarioTransposedLines
       /\ body_final = ScenarioDisplay \o << "\n" >>

\* C9: "|C   G\n You  and I\n" from C to D has the transposed chord line
\* "|D   A", the lyric line unchanged, and the display text
\* "D   A\nYou  and I": the lines of the input joined by newlines, without
\* the final newline.
C9_ScenarioDisplayText ==
    ScenarioDone
    => /\ SplitLines(body_transposed) = ScenarioTransposedLines
       /\ body_final = ScenarioDisplay

C9_Witness == ScenarioDone /\ body_final = ScenarioDisplay

\* C10: with the same origin and target key, parseable or not, the
\* transpose stage returns the raw text character for character and the
\* pipeline yields the markers stripped from the normalized raw text.
C10_SameKeyIsIdentity ==
    ( pc = "done" /\ tom_original = tom_atual )
    => /\ body_transposed = raw_body
       /\ body_final = strip_chord_markers_for_display(
                            normalize_lyrics_indent(raw_body))

\* a chord line that ends in a line break went through with key C twice
C10_Witness ==
    /\ pc = "done"
    /\ tom_original = << "C" >>
    /\ tom_atual = << "C" >>
    /\ raw_body = << "|", "C", "\n" >>
    /\ body_final = << "C" >>

(***************************************************************************)
(* Properties of the key functions (SpecKey, and SpecText for C12)         *)
(***************************************************************************)
\* the 17 spellings of the 12 pitch classes
ValidRoots ==
    { << "C" >>, << "C", "#" >>, << "D", "b" >>, << "D" >>, << "D", "#" >>,
      << "E", "b" >>, << "E" >>, << "F" >>, << "F", "#" >>, << "G", "b" >>,
      << "G" >>, << "G", "#" >>, << "A", "b" >>, << "A" >>, << "A", "#" >>,
      << "B", "b" >>, << "B" >> }

\* the pitch class a valid root denotes
PitchClass(r) ==
    CASE r = << "C" >> -> 0
      [] r \in { << "C", "#" >>, << "D", "b" >> } -> 1
      [] r = << "D" >> -> 2
      [] r \in { << "D", "#" >>, << "E", "b" >> } -> 3
      [] r = << "E" >> -> 4
      [] r = << "F" >> -> 5
      [] r \in { << "F", "#" >>, << "G", "b" >> } -> 6
      [] r = << "G" >> -> 7
      [] r \in { << "G", "#" >>, << "A", "b" >> } -> 8
      [] r = << "A" >> -> 9
      [] r \in { << "A", "#" >>, << "B", "b" >> } -> 10
      [] r = << "B" >> -> 11

\* the valid roots spelled with a flat
FlatSpelled ==
    { << "D", "b" >>, << "E", "b" >>, << "G", "b" >>, << "A", "b" >>,
      << "B", "b" >> }

\* C, C#, D, D#, E, F, F#, G, G#, A, A#, B
SharpScale ==
    << << "C" >>, << "C", "#" >>, << "D" >>, << "D", "#" >>, << "E" >>,
       << "F" >>, << "F", "#" >>, << "G" >>, << "G", "#" >>, << "A" >>,
       << "A", "#" >>, << "B" >> >>

\* C, Db, D, Eb, E, F, Gb, G, Ab, A, Bb, B
FlatScale ==
    << << "C" >>, << "D", "b" >>, << "D" >>, << "E", "b" >>, << "E" >>,
       << "F" >>, << "G", "b" >>, << "G" >>, << "A", "b" >>, << "A" >>,
       << "B", "b" >>, << "B" >> >>

\* the root of a key: its first character in upper case and a "#" or "b"
\* that follows it, leading blanks aside
RootOfKey(key) == split_root(key)

\* semitone_diff has returned
DiffDone == pc \in { "repl", "done" } /\ tr_root = << >>

\* C11: for keys whose roots are among the 12 pitch classes, semitone_diff
\* is (pitchClass(target) - pitchClass(origin)) mod 12, lies in 0..11, is
\* the same whatever the quality suffixes are, and is 0 for equal keys.
C11_SemitoneDiff ==
    ( DiffDone /\ RootOfKey(tom_original) \in ValidRoots
               /\ RootOfKey(tom_atual) \in ValidRoots )
    => /\ diff_steps = ( PitchClass(RootOfKey(tom_atual))
                           - PitchClass(RootOfKey(tom_original)) ) % 12
       /\ diff_steps \in 0..11
       /\ \A s1, s2 \in KeySuffixes :
             semitone_diff(RootOfKey(tom_original) \o s1,
                           RootOfKey(tom_atual) \o s2) = diff_steps
       /\ tom_original = tom_atual => diff_steps = 0

\* from Bb minor up to C#: 1 - 10 wraps to 3
C11_Witness ==
    /\ DiffDone
    /\ tom_original = << "B", "b", "m" >>
    /\ tom_atual = << "C", "#" >>
    /\ diff_steps = 3

\* C12: when the origin key or the target key is empty or has a root that
\* is none of the 12 pitch classes, semitone_diff is 0 and the transpose
\* stage returns the raw text unchanged.
C12_ParseFailureIsIdentity ==
    ( pc \in { "normalize", "strip" }
        /\ ( RootOfKey(tom_original) \notin ValidRoots
               \/ RootOfKey(tom_atual) \notin ValidRoots ) )
    => diff_steps = 0 /\ body_transposed = raw_body

\* a chord line went through from the key H to the key D
C12_Witness ==
    /\ pc = "strip"
    /\ tom_original = << "H" >>
    /\ tom_atual = << "D" >>
    /\ raw_body = << "|", "C" >>
    /\ body_transposed = << "|", "C" >>

\* parse_root_from_key has returned
KeyParsed == pc = "semitone_diff"

\* the first character of the key in upper case with a "#" or "b" after it
FirstToken(key) ==
    IF key = << >> THEN << >>
    ELSE IF Len(key) > 1 /\ key[2] \in { "#", "b" }
         THEN << Upper(key[1]), key[2] >>
         ELSE << Upper(key[1]) >>

\* C13 as stated: the parsed root is null for every empty key and for
\* every key whose first character, in upper case and with a following
\* "#" or "b", is no spelling of a pitch class ("H", "X#", "Cb", "1").
C13_UnparseableRootIsNull ==
    ( KeyParsed /\ FirstToken(tom_original) \notin ValidRoots )
    => key_root = NoRoot

\* C13: the parsed root is null exactly for the keys that are empty once
\* surrounding blanks are stripped; for every other key it is the first
\* character in upper case with a following "#" or "b", also when that is
\* no spelling of a pitch class ("H", "X#", "Cb", "1").
C13_NullRootOnlyForEmpty ==
    KeyParsed
    => /\ key_root = NoRoot <=> Strip(tom_original) = << >>
       /\ Strip(tom_original) # << >>
             => key_root = FirstToken(Strip(tom_original))

\* the key Cb was parsed to the root Cb, which names no pitch class
C13_Witness ==
    /\ KeyParsed
    /\ tom_original = << "C", "b" >>
    /\ key_root = << "C", "b" >>
    /\ key_root \notin ValidRoots

\* transpose_root has returned
RootTransposed == pc \in { "transpose_back", "done" } /\ tr_root # << >>

\* C14: for every valid root and every n, transposing by n and then by -n
\* gives a root of the same pitch class, whose spelling may differ.
C14_RoundTripPitchClass ==
    ( pc = "done" /\ tr_root \in ValidRoots )
    => /\ tr_back \in ValidRoots
       /\ PitchClass(tr_back) = PitchClass(tr_root)

\* Db up one and down one comes back as C#
C14_Witness ==
    /\ pc = "done"
    /\ tr_root = << "D", "b" >>
    /\ tr_steps = 1
    /\ tr_result = << "D" >>
    /\ tr_back = << "C", "#" >>

\* C15: for every valid root and every steps, negative, zero, 12 or more,
\* transpose_root returns a valid root of pitch class
\* (pitchClass(root) + steps) mod 12, a number in 0..11; with 12 steps the
\* pitch class is that of the root.
C15_TransposeRootModulo ==
    ( RootTransposed /\ tr_root \in ValidRoots )
    => /\ tr_result \in ValidRoots
       /\ (PitchClass(tr_root) + tr_steps) % 12 \in 0..11
       /\ PitchClass(tr_result) = (PitchClass(tr_root) + tr_steps) % 12
       /\ tr_steps = 12 => PitchClass(tr_result) = PitchClass(tr_root)

\* C down 13 steps is B
C15_Witness ==
    /\ RootTransposed
    /\ tr_root = << "C" >>
    /\ tr_steps = -13
    /\ tr_result = << "B" >>

\* C16: for every valid root and every steps other than 0, the result is
\* the entry of the flat scale when the root is spelled with "b" and the
\* entry of the sharp scale otherwise.
C16_ScaleFollowsInputSpelling ==
    ( RootTransposed /\ tr_root \in ValidRoots /\ tr_steps # 0 )
    => tr_result =
         ( IF tr_root \in FlatSpelled THEN FlatScale ELSE SharpScale )
            [ ((PitchClass(tr_root) + tr_steps) % 12) + 1 ]

\* Bb up 3 steps is Db, and not C#
C16_Witness ==
    /\ RootTransposed
    /\ tr_root = << "B", "b" >>
    /\ tr_steps = 3
    /\ tr_result = << "D", "b" >>

(***************************************************************************)
(* Properties of the pipeline on chord sheets with chords (SpecChord)      *)
(***************************************************************************)
\* transpose_body_text has returned
TransposeDone == pc \in { "normalize", "strip", "done" }

RawLines == SplitLines(raw_body)
TransposedLines == SplitLines(body_transposed)
FinalLines == SplitLines(body_final)

\* the last line of the raw document is an empty one
LastLineEmpty == RawLines # << >> /\ RawLines[Len(RawLines)] = << >>

\* as many lines, and every line without the marker "|" as it was
SameButChordLines(old, new) ==
    /\ Len(new) = Len(old)
    /\ \A k \in 1..Len(old) : ~ StartsWith(old[k], "|") => new[k] = old[k]

\* C17 as stated: for every raw document and every pair of keys the
\* transposed text has as many lines as the raw one, in the same order,
\* and every line that does not begin with "|" is the input line.
C17_LyricLinesUntouched ==
    TransposeDone
    => SameButChordLines(RawLines, TransposedLines)

\* C17: for every raw document and every pair of keys, every line that
\* does not begin with "|" is the input line and the lines keep their
\* order and number, except that a transposition by a non-zero number of
\* steps drops the last line of the document when that line is empty.
C17_LyricLinesUntouchedButLastEmpty ==
    TransposeDone
    => IF diff_steps # 0 /\ LastLineEmpty
       THEN SameButChordLines(SubSeq(RawLines, 1, Len(RawLines) - 1),
                              TransposedLines)
       ELSE SameButChordLines(RawLines, TransposedLines)

\* the chord line became "|F" and the plain line "E" above it stayed
C17_Witness ==
    /\ TransposeDone
    /\ diff_steps = 1
    /\ raw_body = << "E", "\n", "|", "E" >>
    /\ body_transposed = << "E", "\n", "|", "F" >>

RECURSIVE RootTokens(_)
\* the text cut into root tokens (a pitch letter A-G with a "#" or "b"
\* right after it) and single other characters
RootTokens(text) ==
    IF text = << >> THEN << >>
    ELSE LET n == IF text[1] \in { "A", "B", "C", "D", "E", "F", "G" }
                       /\ Len(text) > 1 /\ text[2] \in { "#", "b" }
                  THEN 2 ELSE 1
         IN  << SubSeq(text, 1, n) >>
                 \o RootTokens(SubSeq(text, n + 1, Len(text)))

RECURSIVE Flatten(_)
Flatten(seqs) ==
    IF seqs = << >> THEN << >> ELSE seqs[1] \o Flatten(Tail(seqs))

\* every root token replaced by its transposition, the rest as it was
RootsReplaced(text, n) ==
    LET toks == RootTokens(text)
    IN  Flatten([ k \in 1..Len(toks) |->
                    IF toks[k][1] \in { "A", "B", "C", "D", "E", "F", "G" }
                    THEN transpose_root(toks[k], n) ELSE toks[k] ])

\* C18: with steps other than 0, every chord line keeps its "|", has every
\* pitch letter A-G with an optional "#" or "b" after it replaced by
\* transpose_root of that occurrence, and keeps every other character,
\* quality suffixes included, in place and in order.
C18_ChordLineRootsReplaced ==
    ( TransposeDone /\ diff_steps # 0 )
    => LET old == RawLines
           new == TransposedLines
       IN  \A k \in 1..Len(old) :
              StartsWith(old[k], "|")
              => /\ k <= Len(new)
                 /\ new[k] = << "|" >> \o RootsReplaced(Tail(old[k]), diff_steps)

\* "|Ebm" up two steps is "|Fm"
C18_Witness ==
    /\ TransposeDone
    /\ diff_steps = 2
    /\ raw_body = << "|", "E", "b", "m" >>
    /\ body_transposed = << "|", "F", "m" >>

\* what is left of a raw line when exactly its marker is removed: a chord
\* line without its "|", a lyric line without its first space, a plain
\* line as it is
MarkerRemoved(line) ==
    IF StartsWith(line, "|")
    THEN RootsReplaced(Tail(line), diff_steps)
    ELSE IF StartsWith(line, " ") THEN Tail(line) ELSE line

\* C19: the pipeline removes exactly the one-character marker from every
\* chord line and every lyric line of the raw document and nothing from a
\* plain line, so that every character left of a line sits one column to
\* the left of its raw column.
C19_OneMarkerPerLine ==
    pc = "done"
    => LET old == RawLines
           new == FinalLines
       IN  \A k \in 1..Len(old) :
              MarkerRemoved(old[k]) # << >>
              => /\ k <= Len(new)
                 /\ new[k] = MarkerRemoved(old[k])

(***************************************************************************)
(* Properties of adding items (SpecOps)                                    *)
(***************************************************************************)
\* C20: adding a music item from a row of the bank appends, at the end of
\* the items of the chosen block, a music item whose current key and
\* original key are the row's original key and whose use-simplified flag
\* is false; the other blocks and the items already there stay as they are.
C20_AddMusicAppends ==
    op.name = "add_music"
    => LET row == SongBank[op.i]
           old_items == old_blocks[op.b + 1].items
           new_items == blocks[op.b + 1].items
       IN  /\ Len(blocks) = Len(old_blocks)
           /\ \A j \in 1..Len(blocks) :
                 j # op.b + 1 => blocks[j] = old_blocks[j]
           /\ blocks[op.b + 1].name = old_blocks[op.b + 1].name
           /\ Len(new_items) = Len(old_items) + 1
           /\ \A j \in 1..Len(old_items) : new_items[j] = old_items[j]
           /\ new_items[Len(new_items)].type = "music"
           /\ new_items[Len(new_items)].title = row.Titulo
           /\ new_items[Len(new_items)].tom = row.Tom_Original
           /\ new_items[Len(new_items)].tom_original = row.Tom_Original
           /\ new_items[Len(new_items)].use_simplificada = FALSE

\* the song went behind a pause of the first block, the second block has
\* an item as well
C20_Witness ==
    /\ op.name = "add_music"
    /\ op.b = 0
    /\ Len(old_blocks) = 2
    /\ old_blocks[1].items = << PauseItem >>
    /\ old_blocks[2].items # << >>
    /\ Len(blocks[1].items) = 2
    /\ blocks[1].items[2].type = "music"


(***************************************************************************)
(* Chord texts in storage: load_chord_from_repo behind its cache,          *)
(* save_chord_to_repo, and the page built from the text loaded             *)
(***************************************************************************)
\* the chord files of the songs of the bank
ChordPaths ==
    UNION { { SongBank[k].CifraPath, SongBank[k].CifraSimplificadaPath } :
              k \in 1..Len(SongBank) }

\* the texts a chord file holds
ChordSheets == { << "|", "C" >>, << "|", "D", "\n", " ", "l", "a" >> }

\* f"Erro ao carregar cifra: {r.status_code}" for status 404
ErrStatus ==
    << "E", "r", "r", "o", " ", "a", "o", " ", "c", "a", "r", "r", "e", "g",
       "a", "r", " ", "c", "i", "f", "r", "a", ":", " ", "4", "0", "4" >>

\* f"Erro ao carregar cifra: {e!r}" for a ConnectionError without arguments
ErrException ==
    << "E", "r", "r", "o", " ", "a", "o", " ", "c", "a", "r", "r", "e", "g",
       "a", "r", " ", "c", "i", "f", "r", "a", ":", " ", "C", "o", "n", "n",
       "e", "c", "t", "i", "o", "n", "E", "r", "r", "o", "r", "(", ")" >>

\* what the request of load_chord_from_repo meets: the file, a status that
\* is not 200, an exception
Responses == { "200", "404", "exception" }

\* a cache without entries
EmptyCache == << >>

\* variant: a failed read returns the empty text
load_chord_from_repo_empty_on_failure(store, path, response) ==
    IF path = "" THEN << >>
    ELSE IF response = "200" THEN store[path] ELSE << >>

\* the body of load_chord_from_repo, run when the cache has no entry
load_chord_from_repo(store, path, response) ==
    IF path = "" THEN << >>
    ELSE CASE response = "200" -> store[path]
           [] response = "404" -> ErrStatus
           [] OTHER -> ErrException

\* the cache with the value returned for a path added
Cached(cache, path, text) ==
    [ p \in (DOMAIN cache) \cup { path } |->
        IF p = path THEN text ELSE cache[p] ]

StoreInit ==
    /\ EditorInit
    /\ NavIdle
    /\ KeyIdle
    /\ csv_file = << >>
    /\ df_sel = << >>
    /\ chord_store \in [ ChordPaths -> ChordSheets ]
    /\ chord_cache = EmptyCache
    /\ chord_path = ""
    /\ old_cache = EmptyCache
    /\ http_ok = TRUE
    /\ raw_body = << >>
    /\ tom_original = << "C" >>
    /\ tom_atual \in { << "C" >>, << "D" >> }
    /\ body_transposed = << >>
    /\ body_norm = << >>
    /\ body_final = << >>
    /\ diff_steps = 0
    /\ pc = "idle"

\* no page is being built
PageIdle == pc \in { "idle", "done" }

\* build_sheet_page_html of a music item whose chord file is path: the text
\* comes from the cache when it has the path, else from the request, whose
\* return value, an error text included, is cached
LoadChord(path, response) ==
    /\ PageIdle
    /\ path \in DOMAIN chord_cache => response = "200"
    /\ raw_body' = IF path \in DOMAIN chord_cache THEN chord_cache[path]
                   ELSE load_chord_from_repo(chord_store, path, response)
    /\ chord_cache' = IF path \in DOMAIN chord_cache THEN chord_cache
                      ELSE Cached(chord_cache, path, raw_body')
    /\ http_ok' = IF path \in DOMAIN chord_cache \/ path = "" THEN http_ok
                  ELSE response = "200"
    /\ chord_path' = path
    /\ old_cache' = chord_cache
    /\ op' = [ name |-> "load_chord_from_repo", b |-> 0, d |-> 0,
               i |-> IF path \in DOMAIN chord_cache THEN 1 ELSE 0 ]
    /\ body_transposed' = << >>
    /\ body_norm' = << >>
    /\ body_final' = << >>
    /\ diff_steps' = 0
    /\ pc' = "transpose"
    /\ UNCHANGED << tom_original, tom_atual, chord_store, csv_file, df_sel >>
    /\ UNCHANGED << blocks, screen, old_blocks, navVars, keyVars, sessionVars >>

\* variant: the cache is cleared whether the write succeeded or not
save_chord_to_repo_always_clears(cache, path, ok) ==
    IF path = "" THEN cache ELSE EmptyCache

\* the cache after save_chord_to_repo: cleared when github_put_file
\* returned True
save_chord_to_repo(cache, path, ok) ==
    IF path # "" /\ ok THEN EmptyCache ELSE cache

\* "Salvar cifra": save_chord_to_repo(path, content)
SaveChord(path, content, ok) ==
    /\ PageIdle
    /\ path = "" => ~ok
    /\ chord_store' = IF path # "" /\ ok
                      THEN [ chord_store EXCEPT ![path] = content ]
                      ELSE chord_store
    /\ chord_cache' = save_chord_to_repo(chord_cache, path, ok)
    /\ http_ok' = IF path = "" THEN http_ok ELSE ok
    /\ chord_path' = path
    /\ old_cache' = chord_cache
    /\ op' = [ name |-> "save_chord_to_repo", b |-> IF ok THEN 1 ELSE 0,
               i |-> 0, d |-> 0 ]
    /\ UNCHANGED << csv_file, df_sel, textVars >>
    /\ UNCHANGED << blocks, screen, old_blocks, navVars, keyVars, sessionVars >>

\* ttl=120: an entry of the cache expires
ExpireChord(path) ==
    /\ PageIdle
    /\ path \in DOMAIN chord_cache
    /\ chord_cache' = IF DOMAIN chord_cache = { path } THEN EmptyCache
                      ELSE [ p \in (DOMAIN chord_cache) \ { path } |->
                               chord_cache[p] ]
    /\ chord_path' = path
    /\ old_cache' = chord_cache
    /\ op' = [ name |-> "ttl", b |-> 0, i |-> 0, d |-> 0 ]
    /\ UNCHANGED << csv_file, df_sel, chord_store, http_ok, textVars >>
    /\ UNCHANGED << blocks, screen, old_blocks, navVars, keyVars, sessionVars >>

StoreNext ==
    \/ \E path \in ChordPaths \cup { "" }, response \in Responses :
          LoadChord(path, response)
    \/ Transpose
    \/ Normalize
    \/ StripMarkers
    \/ \E path \in ChordPaths \cup { "" }, content \in ChordSheets,
          ok \in BOOLEAN : SaveChord(path, content, ok)
    \/ \E path \in ChordPaths \cup { "" } : ExpireChord(path)

SpecStore == StoreInit /\ [][StoreNext]_vars

(***************************************************************************)
(* Retuning, the preview cursor and the frame of the tree operations       *)
(***************************************************************************)
\* the handler that ran last started from the editor and was served there
RanHandler(names) == op.name \in names

\* the key the bank gives the song of a music item: the value its original
\* key was created with
CreatedKey(item) == BankRows(item.title)[1].Tom_Original

\* the music items of a setlist
MusicItems(bl) ==
    UNION { { bl[k].items[j] : j \in 1..Len(bl[k].items) } :
              k \in 1..Len(bl) }

\* C21: choosing another key for the selected music item changes, among the
\* fields of the setlist, only the current key of that item: its original
\* key, title, artist, chord references and use-simplified flag, and every
\* other item, are as before; so the original key of every music item is
\* the one it was created with, whatever handler ran.
C21_RetuneChangesOnlyCurrentKey ==
    /\ RanHandler({ "retune" }) =>
          LET b == op.b + 1
              i == op.i + 1
              old == old_blocks[b].items[i]
              new == blocks[b].items[i]
          IN  /\ new.tom # old.tom
              /\ new.tom_original = old.tom_original
              /\ new.title = old.title
              /\ new.artist = old.artist
              /\ new.cifra_path = old.cifra_path
              /\ new.cifra_simplificada_path = old.cifra_simplificada_path
              /\ new.use_simplificada = old.use_simplificada
              /\ Len(blocks) = Len(old_blocks)
              /\ \A k \in 1..Len(blocks) :
                    /\ blocks[k].name = old_blocks[k].name
                    /\ Len(blocks[k].items) = Len(old_blocks[k].items)
                    /\ \A j \in 1..Len(blocks[k].items) :
                          << k, j >> # << b, i >> =>
                              blocks[k].items[j] = old_blocks[k].items[j]
    /\ \A item \in MusicItems(blocks) :
          item.type = "music" => item.tom_original = CreatedKey(item)

\* an item was retuned away from its original key, next to another item
C21_Witness ==
    /\ RanHandler({ "retune" })
    /\ TotalItems(blocks) >= 2
    /\ blocks[op.b + 1].items[op.i + 1].tom = << "D" >>
    /\ blocks[op.b + 1].items[op.i + 1].tom_original = << "C" >>

\* the position the preview shows
ShownCursor == << cur_block_idx, cur_item_idx >>

\* C24: after every handler that leaves the editor open, the preview shows
\* no page exactly when no block holds an item, and otherwise shows the
\* item at a position that exists and computes the footer for it; a stored
\* cursor that is None or designates no item is not used: the first item of
\* the first block that holds one is shown instead.
C24_PreviewCursorValid ==
    screen = "editor" =>
        IF \A k \in 1..Len(blocks) : blocks[k].items = << >>
        THEN preview_item = NoItem /\ footer_mode = "none"
        ELSE /\ InSetlist(blocks, ShownCursor)
             /\ preview_item = blocks[cur_block_idx + 1].items[cur_item_idx + 1]
             /\ footer_mode \in FooterModes
             /\ IF InSetlist(blocks, current_item)
                THEN ShownCursor = current_item
                ELSE /\ cur_item_idx = 0
                     /\ \A k \in 1..cur_block_idx : blocks[k].items = << >>

\* the item under the cursor was deleted, the first block is empty, and the
\* preview shows the first item of a later block
C24_Witness ==
    /\ RanHandler({ "delete_item" })
    /\ current_item # NoCursor
    /\ ~InSetlist(blocks, current_item)
    /\ preview_item # NoItem
    /\ cur_block_idx > 0

\* C28: moving or deleting an item or a block changes only the blocks: the
\* cursor and the selection keep the index values they had, so they
\* designate whatever now stands at that position.
C28_TreeOpsKeepIndexes ==
    RanHandler({ "move_item", "delete_item", "move_block", "delete_block" }) =>
        /\ current_item = old_session.current_item
        /\ selected_idx = old_session.selected_idx
        /\ setlist_name = old_session.setlist_name
        /\ screen = old_session.screen

\* the item under the cursor moved down and the cursor now designates the
\* item that took its place
C28_Witness ==
    /\ RanHandler({ "move_item" })
    /\ current_item = << op.b, op.i >>
    /\ selected_idx = current_item
    /\ op.d = 1
    /\ InSetlist(blocks, current_item)
    /\ blocks[op.b + 1].items[op.i + 1] # old_blocks[op.b + 1].items[op.i + 1]
    /\ blocks[op.b + 1].items[op.i + 2] = old_blocks[op.b + 1].items[op.i + 1]


(***************************************************************************)
(* Loading and saving a setlist                                            *)
(***************************************************************************)
\* the rows of the table read that belong to a group of the groupby
GroupedRows == SelectSeq(ReadCsv(df_sel), LAMBDA r : r.BlockName # NaN)

\* (BlockIndex, BlockName) of a row
KeyOf(r) == << r.BlockIndex, r.BlockName >>

\* (BlockIndex, BlockName) of one row sorts before that of another
KeyBefore(r1, r2) ==
    \/ r1.BlockIndex < r2.BlockIndex
    \/ r1.BlockIndex = r2.BlockIndex
         /\ NameRank(r1.BlockName) < NameRank(r2.BlockName)

\* C22: loading a table with rows yields the blocks in ascending
\* (BlockIndex, BlockName) order and, in each block, the items in ascending
\* ItemIndex order, in whatever order the rows are stored: the row with g-1
\* distinct smaller keys and j-1 smaller item indexes under its key becomes
\* item j of block g.
C22_LoadOrdersByIndex ==
    (RanHandler({ "load_setlist" }) /\ df_sel # << >>) =>
        LET rows == GroupedRows
            R == 1..Len(rows)
            g(k) == 1 + Cardinality({ KeyOf(rows[m]) : m \in
                        { n \in R : KeyBefore(rows[n], rows[k]) } })
            j(k) == 1 + Cardinality({ m \in R :
                        /\ KeyOf(rows[m]) = KeyOf(rows[k])
                        /\ rows[m].ItemIndex < rows[k].ItemIndex })
        IN  /\ Len(blocks) = Cardinality({ KeyOf(rows[k]) : k \in R })
            /\ \A k \in R :
                  /\ j(k) <= Len(blocks[g(k)].items)
                  /\ blocks[g(k)].items[j(k)] = RowToItem(rows[k])
            /\ \A b \in 1..Len(blocks) :
                  Len(blocks[b].items) = Cardinality({ k \in R : g(k) = b })

\* the rows of a block of two items were stored in descending ItemIndex
\* order, and the loaded block holds the two items
C22_Witness ==
    /\ RanHandler({ "load_setlist" })
    /\ Len(df_sel) >= 2
    /\ df_sel[1].BlockIndex = df_sel[2].BlockIndex
    /\ df_sel[1].ItemIndex > df_sel[2].ItemIndex
    /\ df_sel[1].ItemType # df_sel[2].ItemType
    /\ Len(blocks) = 1
    /\ Len(blocks[1].items) >= 2

\* C25 (fails): saving a setlist and loading the file saved yields the same
\* setlist: the same blocks under the same names, blocks without items
\* included, each with the same items (the text field is empty throughout).
C25_SaveLoadRoundTrip ==
    (/\ RanHandler({ "load_setlist" })
     /\ http_ok
     /\ df_sel = csv_file
     /\ csv_file = SaveRows(old_blocks)) => blocks = old_blocks

\* C29: a load that finds no row (the file is missing, unreadable or empty)
\* leaves the blocks, the name, the cursor, the selection and the screen as
\* they were; a load that finds rows replaces the blocks and the name,
\* clears the cursor and the selection and opens the editor.
C29_LoadWithoutRowsChangesNothing ==
    RanHandler({ "load_setlist" }) =>
        IF df_sel = << >>
        THEN /\ blocks = old_blocks
             /\ current_item = old_session.current_item
             /\ selected_idx = old_session.selected_idx
             /\ setlist_name = old_session.setlist_name
             /\ screen = old_session.screen
        ELSE /\ blocks = LoadBlocks(df_sel)
             /\ setlist_name \in StoredNames
             /\ current_item = NoCursor
             /\ selected_idx = NoCursor
             /\ screen = "editor"

\* the read failed although the file has rows, and the session keeps its
\* items, its cursor and the home screen
C29_Witness ==
    /\ RanHandler({ "load_setlist" })
    /\ ~http_ok
    /\ csv_file # << >>
    /\ df_sel = << >>
    /\ current_item = << 0, 0 >>
    /\ screen = "home"


(***************************************************************************)
(* Transposition of every spelling of a root                               *)
(***************************************************************************)
\* the pitch class of a natural note
LetterPitch(l) ==
    CASE l = "C" -> 0 [] l = "D" -> 2 [] l = "E" -> 4 [] l = "F" -> 5
      [] l = "G" -> 7 [] l = "A" -> 9 [] l = "B" -> 11

\* a pitch letter A-G with an optional "#" or "b"
IsSpelling(r) ==
    /\ Len(r) \in { 1, 2 }
    /\ r[1] \in PitchLetters
    /\ Len(r) = 2 => r[2] \in { "#", "b" }

\* the pitch class a spelling denotes: Cb is 11, Fb is 4, E# is 5, B# is 0
NamedPitch(r) ==
    ( LetterPitch(r[1])
        + (IF Len(r) = 1 THEN 0 ELSE IF r[2] = "#" THEN 1 ELSE 11) ) % 12

RECURSIVE MovedBy(_, _, _)
\* out is the tokens toks with every root token replaced by a spelling of
\* the pitch class n semitones above it, and every other character kept
MovedBy(toks, out, n) ==
    IF toks = << >> THEN out = << >>
    ELSE IF toks[1][1] \in PitchLetters
         THEN \E len \in 1..2 :
                 /\ len <= Len(out)
                 /\ IsSpelling(SubSeq(out, 1, len))
                 /\ NamedPitch(SubSeq(out, 1, len))
                        = (NamedPitch(toks[1]) + n) % 12
                 /\ MovedBy(Tail(toks), SubSeq(out, len + 1, Len(out)), n)
         ELSE /\ out # << >>
              /\ out[1] = toks[1][1]
              /\ MovedBy(Tail(toks), Tail(out), n)

\* C26 (fails): after a transposition by steps other than 0, every root
\* token of every chord line, whatever its spelling (Cb, Fb, E# and B#
\* included), is replaced by a root whose pitch class is steps semitones
\* above it; none stays at its pitch.
C26_EveryRootMoves ==
    ( TransposeDone /\ diff_steps # 0 )
    => LET old == RawLines
           new == TransposedLines
       IN  \A k \in 1..Len(old) :
              StartsWith(old[k], "|")
              => /\ k <= Len(new)
                 /\ StartsWith(new[k], "|")
                 /\ MovedBy(RootTokens(Tail(old[k])), Tail(new[k]),
                            diff_steps)


(***************************************************************************)
(* The root of the original key lands on the root of the current key       *)
(***************************************************************************)
\* C27: for every original and current key whose roots are among the 12
\* pitch classes, the root of the original key moved by
\* semitone_diff(original, current) is a root of the pitch class of the
\* current key's root; its spelling may differ.
C27_OriginRootReachesTarget ==
    ( /\ pc = "done"
      /\ tr_root = << >>
      /\ RootOfKey(tom_original) \in ValidRoots
      /\ RootOfKey(tom_atual) \in ValidRoots )
    => /\ tr_result \in ValidRoots
       /\ PitchClass(tr_result) = PitchClass(RootOfKey(tom_atual))

\* from Db to F#m the root becomes Gb, the pitch class of F# spelled flat
C27_Witness ==
    /\ pc = "done"
    /\ tom_original = << "D", "b" >>
    /\ tom_atual = << "F", "#", "m" >>
    /\ diff_steps = 5
    /\ tr_result = << "G", "b" >>


(***************************************************************************)
(* Failed reads and the cache of chord texts                               *)
(***************************************************************************)
\* "Erro ao carregar cifra"
ErrPrefix ==
    << "E", "r", "r", "o", " ", "a", "o", " ", "c", "a", "r", "r", "e", "g",
       "a", "r", " ", "c", "i", "f", "r", "a" >>

\* the last chord call was a load that made a request, and the request
\* answered with another status than 200 or raised
ReadFailed ==
    /\ op.name = "load_chord_from_repo"
    /\ op.i = 0
    /\ chord_path # ""
    /\ ~http_ok

\* C23: when the read of a chord text fails, the loader returns a text that
\* begins with "Erro ao carregar cifra" as the body of the document, and
\* the page shows that text after the transpose, normalize and strip
\* stages.
C23_ReadFailureBecomesBody ==
    ReadFailed =>
        /\ Len(raw_body) >= Len(ErrPrefix)
        /\ SubSeq(raw_body, 1, Len(ErrPrefix)) = ErrPrefix
        /\ pc = "done" =>
              body_final = strip_chord_markers_for_display(
                               normalize_lyrics_indent(
                                   transpose_body_text(raw_body, tom_original,
                                                       tom_atual)))

\* the request answered 404 for an item retuned from C to D, and the page
\* shows the error text
C23_Witness ==
    /\ ReadFailed
    /\ pc = "done"
    /\ diff_steps = 2
    /\ body_final = ErrStatus

\* C30: after save_chord_to_repo succeeded the cache has no entry, so the
\* next load_chord_from_repo of the path makes a request and, when it is
\* answered, returns the text in storage; after a save that failed, or was
\* given an empty path, the cache is as it was.
C30_SaveClearsCache ==
    /\ op.name = "save_chord_to_repo" =>
          IF op.b = 1 THEN chord_cache = EmptyCache
          ELSE chord_cache = old_cache
    /\ ( /\ op.name = "load_chord_from_repo"
         /\ chord_path # ""
         /\ chord_path \notin DOMAIN old_cache ) =>
          /\ op.i = 0
          /\ http_ok => raw_body = chord_store[chord_path]

\* the save replaced a text that the cache held, and the cache is empty
C30_Witness ==
    /\ op.name = "save_chord_to_repo"
    /\ op.b = 1
    /\ chord_path \in DOMAIN old_cache
    /\ old_cache[chord_path] # chord_store[chord_path]
    /\ chord_cache = EmptyCache

====
